---- MODULE Spec2Model ----
(***************************************************************************)
(* DragonSwap quoting of the KAIA MCP server (WalletAgent, wallet.ts, and   *)
(* DragonSwapRouter, router.ts): the pure price arithmetic, the per-tier    *)
(* probing of pools, the scoring and selection of candidates and the        *)
(* slippage bound.                                                          *)
(*                                                                          *)
(* JavaScript numbers are IEEE-754 doubles (53-bit significand).  They are  *)
(* modelled as binary floating-point numbers with a significand of          *)
(* MantBits bits, round-to-nearest-even, and an unbounded exponent, so that *)
(* every Number operation of the code rounds as a double does, at a         *)
(* precision TLC's integers can carry.  bigint values are integers.         *)
(***************************************************************************)
EXTENDS Integers, Sequences, FiniteSets, TLC

VARIABLES
  chain,     \* the DEX as the chain reader shows it: fee tier -> pool
  pc,        \* position of the getSwapQuote request
  req,       \* the parameters of the request, defaults applied
  tiers,     \* the fee tiers still to probe, in probe order
  quotes,    \* the candidates accumulated so far
  probes,    \* history: what each probe read and how it ended
  result,    \* what the request returned or threw
  calc,      \* inputs and results of the pure-function checks
  agent,     \* the WalletAgent: how it was constructed, its account, its mode
  exec,      \* the executeSwap call in progress and how it ended
  reads,     \* number of chain reads issued so far
  txs,       \* the transactions submitted to the chain, in order
  clock,     \* Math.floor(Date.now() / 1000)
  tool,      \* the tool handler in progress and the payload it returned
  call       \* the last transaction operation called on the agent and its outcome

vars == <<chain, pc, req, tiers, quotes, probes, result, calc,
          agent, exec, reads, txs, clock, tool, call>>

\* the state of the swap execution, the tool handlers and the agent's calls
swapVars == <<agent, exec, txs, clock, tool, call>>

(***************************************************************************)
(* Bounds of the model.                                                     *)
(***************************************************************************)
\* bits of the significand of a modelled double (53 in IEEE-754)
MantBits == 8
\* sqrtPriceX96 values are multiples of 2^(96 - SqrtFracBits)
SqrtFracBits == 2
\* largest sqrtPriceX96 of the model, in units of 2^(96 - SqrtFracBits)
MaxSqrt == 8
\* largest raw input amount of the pure-function checks
MaxAmountIn == 8

(***************************************************************************)
(* Floating point: a value is [m, e] = m * 2^e with m = 0 or                *)
(* 2^(MantBits-1) <= m < 2^MantBits; Infinity and NaN are two more values.  *)
(* Only non-negative numbers occur in the modelled code paths.             *)
(***************************************************************************)
\* 2^n and 10^n
Pow2(n) == 2 ^ n
Pow10(n) == 10 ^ n

RECURSIVE Ilog2(_)
Ilog2(x) == IF x <= 1 THEN 0 ELSE 1 + Ilog2(x \div 2)

FZero == [m |-> 0, e |-> 0]
FInf == [m |-> -1, e |-> 0]
FNaN == [m |-> -2, e |-> 0]

IsNaN(a) == a.m = -2
IsInf(a) == a.m = -1
IsFinite(a) == a.m >= 0

\* 2^MantBits and 2^(MantBits-1): the bounds of a significand
MantHigh == Pow2(MantBits)
MantLow == Pow2(MantBits - 1)

\* round-to-nearest, ties to even: the quotient q of a division by D with
\* remainder r, rounded to an integer
RoundUp(q, r, D) ==
  IF (2 * r > D) \/ (2 * r = D /\ q % 2 = 1) THEN q + 1 ELSE q

\* a significand that rounding carried to 2^MantBits moves to the next exponent
Normalise(m, e) ==
  IF m = MantHigh THEN [m |-> MantLow, e |-> e + 1] ELSE [m |-> m, e |-> e]

\* the double nearest to (N/D) * 2^e (ties to even), for a quotient N/D known
\* to lie in [2^(MantBits-1), 2^MantBits)
RoundQuot(N, D, e) == Normalise(RoundUp(N \div D, N % D, D), e)

\* the double nearest to (N0/D0) * 2^e0, for N0/D0 in [2^(MantBits-2), 2^MantBits)
RoundScaled(N0, D0, e0) ==
  IF N0 < D0 * MantLow THEN RoundQuot(2 * N0, D0, e0 - 1)
  ELSE RoundQuot(N0, D0, e0)

\* the double nearest to num/den, e0 being the exponent of its leading bit
\* less MantBits - 1, up to one
RoundRatAt(num, den, e0) ==
  RoundScaled(IF e0 < 0 THEN num * Pow2(-e0) ELSE num,
              IF e0 > 0 THEN den * Pow2(e0) ELSE den, e0)

\* the double nearest to num/den (ties to even), for num >= 0 and den > 0
RoundRat(num, den) ==
  IF num = 0 THEN FZero
  ELSE RoundRatAt(num, den, Ilog2(num) - Ilog2(den) - (MantBits - 1))

\* a * 2^k, exact
FScale(a, k) == IF a.m <= 0 THEN a ELSE [m |-> a.m, e |-> a.e + k]

\* Number(n) for a bigint n >= 0
FromInt(n) == RoundRat(n, 1)

FOne == FromInt(1)
FTen == FromInt(10)
FHundred == FromInt(100)

\* the product of two significands p = ma * mb at exponent e, rounded
FMulFinite(p, e) ==
  IF p >= MantHigh * MantLow THEN RoundQuot(p, MantHigh, e + MantBits)
  ELSE RoundQuot(p, MantLow, e + MantBits - 1)

\* a * b
FMul(a, b) ==
  IF IsNaN(a) \/ IsNaN(b) THEN FNaN
  ELSE IF IsInf(a) \/ IsInf(b)
    THEN (IF a.m = 0 \/ b.m = 0 THEN FNaN ELSE FInf)
  ELSE IF a.m = 0 \/ b.m = 0 THEN FZero
  ELSE FMulFinite(a.m * b.m, a.e + b.e)

\* a / b
FDiv(a, b) ==
  IF IsNaN(a) \/ IsNaN(b) THEN FNaN
  ELSE IF IsInf(a) THEN (IF IsInf(b) THEN FNaN ELSE FInf)
  ELSE IF IsInf(b) THEN FZero
  ELSE IF b.m = 0 THEN (IF a.m = 0 THEN FNaN ELSE FInf)
  ELSE IF a.m = 0 THEN FZero
  ELSE IF a.m >= b.m
    THEN RoundQuot(a.m * MantLow, b.m, a.e - b.e - (MantBits - 1))
    ELSE RoundQuot(a.m * MantHigh, b.m, a.e - b.e - MantBits)

\* the sum of two significands aligned d bits apart, at exponent e, rounded
FAddSum(sum, d, e) ==
  IF sum >= MantHigh * Pow2(d) THEN RoundQuot(sum, Pow2(d + 1), e + d + 1)
  ELSE RoundQuot(sum, Pow2(d), e + d)

\* hi + lw for finite nonzero hi, lw with hi.e >= lw.e
FAddOrdered(hi, lw) ==
  IF hi.e - lw.e >= MantBits + 2 THEN hi
  ELSE FAddSum(hi.m * Pow2(hi.e - lw.e) + lw.m, hi.e - lw.e, lw.e)

\* a + b
FAdd(a, b) ==
  IF IsNaN(a) \/ IsNaN(b) THEN FNaN
  ELSE IF IsInf(a) \/ IsInf(b) THEN FInf
  ELSE IF a.m = 0 THEN b
  ELSE IF b.m = 0 THEN a
  ELSE IF a.e >= b.e THEN FAddOrdered(a, b) ELSE FAddOrdered(b, a)

\* a < b (false when either is NaN)
FLess(a, b) ==
  IF IsNaN(a) \/ IsNaN(b) THEN FALSE
  ELSE IF IsInf(a) THEN FALSE
  ELSE IF IsInf(b) THEN TRUE
  ELSE IF b.m = 0 THEN FALSE
  ELSE IF a.m = 0 THEN TRUE
  ELSE a.e < b.e \/ (a.e = b.e /\ a.m < b.m)

\* a - b for finite a >= b
FSub(a, b) ==
  IF IsNaN(a) \/ IsNaN(b) THEN FNaN
  ELSE IF b.m = 0 THEN a
  ELSE IF ~FLess(b, a) THEN FZero
  ELSE IF a.e - b.e >= MantBits + 2 THEN a
  ELSE FScale(RoundRat(a.m * Pow2(a.e - b.e) - b.m, 1), b.e)

\* Math.min(a, b)
FMin(a, b) ==
  IF IsNaN(a) \/ IsNaN(b) THEN FNaN ELSE IF FLess(b, a) THEN b ELSE a

\* s with 10 times its last element appended
AppendTimesTen(s) ==
  Append(s, IF s = <<>> THEN FTen ELSE FMul(s[Len(s)], FTen))

\* <<10^1, ..., 10^n>> as doubles, each the rounded product of the one before
RECURSIVE FPow10Seq(_)
FPow10Seq(n) == IF n = 0 THEN <<>> ELSE AppendTimesTen(FPow10Seq(n - 1))

\* <<1/f[1], ..., 1/f[n]>>
RECURSIVE FInverseSeq(_, _)
FInverseSeq(f, n) ==
  IF n = 0 THEN <<>> ELSE Append(FInverseSeq(f, n - 1), FDiv(FOne, f[n]))

\* Math.pow(10, k) for |k| <= 18, a negative power as the reciprocal; tabulated
FPow10Table == FPow10Seq(18)
FPow10Inverse == FInverseSeq(FPow10Table, 18)
FPow10(k) ==
  IF k = 0 THEN FOne ELSE IF k > 0 THEN FPow10Table[k] ELSE FPow10Inverse[-k]

\* whether BigInt(Math.floor(a)) is defined: BigInt throws a RangeError on
\* Infinity and NaN
CanBigInt(a) == IsFinite(a)

\* BigInt(Math.floor(a)) for finite a
FloorInt(a) ==
  IF a.m = 0 THEN 0
  ELSE IF a.e >= 0 THEN a.m * Pow2(a.e)
  ELSE IF -a.e >= MantBits THEN 0
  ELSE a.m \div Pow2(-a.e)

(***************************************************************************)
(* Program constants.                                                       *)
(***************************************************************************)
\* Q96 = 2^96
QBits == 96
\* decimals of the natively known 18-decimals tokens and of the USDT tokens
Decimals18 == 18
Decimals6 == 6

(***************************************************************************)
(* QuoteCalculator: the pure price arithmetic.                              *)
(***************************************************************************)
\* Number(sqrtPriceX96), for sqrtPriceX96 = s * 2^(QBits - SqrtFracBits)
NumberOfSqrtPriceX96(s) == FScale(FromInt(s), QBits - SqrtFracBits)

\* the result of a bigint-valued computation: a value, or a thrown error
Returned(v) == [thrown |-> FALSE, value |-> v]
Thrown == [thrown |-> TRUE, value |-> 0]

\* BigInt(Math.floor(x))
BigIntFloor(x) == IF CanBigInt(x) THEN Returned(FloorInt(x)) ELSE Thrown

\* x * x
FSquare(x) == FMul(x, x)

\* applyPrice with the operands of the division exchanged
applyPriceInverted(amount, price, isToken0Input) ==
  IF isToken0Input THEN FMul(amount, price) ELSE FDiv(price, amount)

\* isToken0Input ? amount * price : amount / price
applyPrice(amount, price, isToken0Input) ==
  IF isToken0Input THEN FMul(amount, price) ELSE FDiv(amount, price)

\* WalletAgent.calculateAmountOutFromSqrtPrice
calculateAmountOutFromSqrtPrice(s, amountIn, tokenInDecimals, tokenOutDecimals, isToken0Input) ==
  LET Q96 == FScale(FOne, QBits)
      sqrtPrice == FDiv(NumberOfSqrtPriceX96(s), Q96)
      priceRaw == FSquare(sqrtPrice)
      token0Decimals == IF isToken0Input THEN tokenInDecimals ELSE tokenOutDecimals
      token1Decimals == IF isToken0Input THEN tokenOutDecimals ELSE tokenInDecimals
      priceHuman == FMul(priceRaw, FPow10(token0Decimals - token1Decimals))
      amountInHuman == FDiv(FromInt(amountIn), FPow10(tokenInDecimals))
      amountOutHuman == applyPrice(amountInHuman, priceHuman, isToken0Input)
  IN BigIntFloor(FMul(amountOutHuman, FPow10(tokenOutDecimals)))

\* Math.pow(1.0001, tick) on the ticks of the model: the double nearest to the
\* power, given to five decimal places
Ticks == {-13863, -6932, 0, 6932, 13863}
TickPrice(tick) ==
  CASE tick = -13863 -> RoundRat(25002, 100000)
    [] tick = -6932 -> RoundRat(49999, 100000)
    [] tick = 0 -> FOne
    [] tick = 6932 -> RoundRat(200004, 100000)
    [] tick = 13863 -> RoundRat(399975, 100000)

\* DragonSwapRouter.calculateAmountOutFromTick
calculateAmountOutFromTick(tick, amountIn, tokenInDecimals, tokenOutDecimals, isToken0Input) ==
  LET price == TickPrice(tick)
      decimalAdjustment == FPow10(tokenInDecimals - tokenOutDecimals)
      adjustedPrice == FMul(price, decimalAdjustment)
      amountOut == applyPrice(FromInt(amountIn), adjustedPrice, isToken0Input)
  IN BigIntFloor(amountOut)

(***************************************************************************)
(* SlippageGuard.                                                           *)
(***************************************************************************)
\* basis points of 100%
BpsBase == 10000

\* The integer slippages in 0..12000 for which the double product
\* ((10000 - slippage) / 10000) * 10000 falls below the integer
\* 10000 - slippage, so that Math.floor yields one less.  The quotient and
\* the product are each one correctly rounded IEEE-754 double operation on
\* integers below 2^53; the set lists the outcomes of that evaluation.
FloorShortSlippages == {
  1810, 1820, 1830, 1840, 1850, 1860, 1870, 1891, 1901, 1911, 1921, 1931,
  1941, 1951, 1961, 1971, 1981, 1991, 2022, 2032, 2042, 2052, 2062, 2072,
  2082, 2092, 2102, 2112, 2122, 2143, 2153, 2163, 2173, 2183, 2193, 2203,
  2213, 2223, 2233, 2243, 2264, 2274, 2284, 2294, 2304, 2314, 2324, 2334,
  2344, 2354, 2364, 2374, 2395, 2405, 2415, 2425, 2435, 2445, 2455, 2465,
  2475, 2485, 2495, 2516, 2526, 2536, 2546, 2556, 2566, 2576, 2586, 2596,
  2606, 2616, 2647, 2657, 2667, 2677, 2687, 2697, 2707, 2717, 2727, 2737,
  2747, 2768, 2778, 2788, 2798, 2808, 2818, 2828, 2838, 2848, 2858, 2868,
  2889, 2899, 2909, 2919, 2929, 2939, 2949, 2959, 2969, 2979, 2989, 2999,
  3020, 3030, 3040, 3050, 3060, 3070, 3080, 3090, 3100, 3110, 3120, 3141,
  3151, 3161, 3171, 3181, 3191, 3201, 3211, 3221, 3231, 3241, 3272, 3282,
  3292, 3302, 3312, 3322, 3332, 3342, 3352, 3362, 3372, 3393, 3403, 3413,
  3423, 3433, 3443, 3453, 3463, 3473, 3483, 3493, 3514, 3524, 3534, 3544,
  3554, 3564, 3574, 3584, 3594, 3604, 3614, 3624, 3645, 3655, 3665, 3675,
  3685, 3695, 3705, 3715, 3725, 3735, 3745, 3766, 3776, 3786, 3796, 3806,
  3816, 3826, 3836, 3846, 3856, 3866, 3897, 3907, 3917, 3927, 3937, 3947,
  3957, 3967, 3977, 3987, 3997, 4018, 4028, 4038, 4048, 4058, 4068, 4078,
  4088, 4098, 4108, 4118, 4139, 4149, 4159, 4169, 4179, 4189, 4199, 4209,
  4219, 4229, 4239, 4249, 4270, 4280, 4290, 4300, 4310, 4320, 4330, 4340,
  4350, 4360, 4370, 4391, 4401, 4411, 4421, 4431, 4441, 4451, 4461, 4471,
  4481, 4491, 4522, 4532, 4542, 4552, 4562, 4572, 4582, 4592, 4602, 4612,
  4622, 4643, 4653, 4663, 4673, 4683, 4693, 4703, 4713, 4723, 4733, 4743,
  4764, 4774, 4784, 4794, 4804, 4814, 4824, 4834, 4844, 4854, 4864, 4874,
  4895, 4905, 4915, 4925, 4935, 4945, 4955, 4965, 4975, 4985, 4995, 5905,
  5910, 5915, 5920, 5925, 5930, 5935, 6011, 6016, 6021, 6026, 6031, 6036,
  6041, 6046, 6051, 6056, 6061, 6132, 6137, 6142, 6147, 6152, 6157, 6162,
  6167, 6172, 6177, 6182, 6187, 6258, 6263, 6268, 6273, 6278, 6283, 6288,
  6293, 6298, 6303, 6308, 6384, 6389, 6394, 6399, 6404, 6409, 6414, 6419,
  6424, 6429, 6434, 6510, 6515, 6520, 6525, 6530, 6535, 6540, 6545, 6550,
  6555, 6560, 6636, 6641, 6646, 6651, 6656, 6661, 6666, 6671, 6676, 6681,
  6686, 6757, 6762, 6767, 6772, 6777, 6782, 6787, 6792, 6797, 6802, 6807,
  6812, 6883, 6888, 6893, 6898, 6903, 6908, 6913, 6918, 6923, 6928, 6933,
  7009, 7014, 7019, 7024, 7029, 7034, 7039, 7044, 7049, 7054, 7059, 7135,
  7140, 7145, 7150, 7155, 7160, 7165, 7170, 7175, 7180, 7185, 7261, 7266,
  7271, 7276, 7281, 7286, 7291, 7296, 7301, 7306, 7311, 7382, 7387, 7392,
  7397, 7402, 7407, 7412, 7417, 7422, 7427, 7432, 7437, 7955, 7960, 7965,
  8008, 8013, 8018, 8023, 8028, 8066, 8071, 8076, 8081, 8086, 8091, 8129,
  8134, 8139, 8144, 8149, 8154, 8192, 8197, 8202, 8207, 8212, 8217, 8255,
  8260, 8265, 8270, 8275, 8280, 8318, 8323, 8328, 8333, 8338, 8343, 8381,
  8386, 8391, 8396, 8401, 8406, 8444, 8449, 8454, 8459, 8464, 8507, 8512,
  8517, 8522, 8527, 8570, 8575, 8580, 8585, 8590, 8633, 8638, 8643, 8648,
  8653, 8691, 8696, 8701, 8706, 8711, 8716, 8980, 9004, 9009, 9014, 9033,
  9038, 9043, 9067, 9072, 9077, 9096, 9101, 9106, 9130, 9135, 9140, 9159,
  9164, 9169, 9193, 9198, 9203, 9222, 9227, 9232, 9256, 9261, 9285, 9290,
  9295, 9319, 9324, 9348, 9353, 9358, 9490, 9502, 9507, 9519, 9536, 9548,
  9553, 9565, 9570, 9582, 9599, 9611, 9616, 9628, 9645, 9662, 9674, 9679,
  9745, 9751, 9768, 9774, 9785, 9791, 9808, 9814, 9831, 9837, 9884, 9887,
  9904, 9907, 9942, 9952, 9971, 9976, 9988, 9994, 9997, 10051, 10061, 10079,
  10099, 10102, 10119, 10122, 10158, 10175, 10181, 10198, 10204, 10221,
  10227, 10238, 10244, 10316, 10333, 10345, 10350, 10362, 10367, 10379,
  10396, 10408, 10413, 10425, 10442, 10454, 10459, 10471, 10476, 10488,
  10505, 10627, 10632, 10637, 10661, 10666, 10671, 10690, 10695, 10700,
  10724, 10729, 10734, 10753, 10758, 10763, 10787, 10792, 10816, 10821,
  10826, 10850, 10855, 10879, 10884, 10889, 10908, 10913, 10918, 10942,
  10947, 10952, 10971, 10976, 10981, 11005, 11010, 11015, 11254, 11259,
  11264, 11269, 11274, 11279, 11317, 11322, 11327, 11332, 11337, 11342,
  11380, 11385, 11390, 11395, 11400, 11405, 11443, 11448, 11453, 11458,
  11463, 11468, 11506, 11511, 11516, 11521, 11526, 11531, 11569, 11574,
  11579, 11584, 11589, 11632, 11637, 11642, 11647, 11652, 11695, 11700,
  11705, 11710, 11715, 11758, 11763, 11768, 11773, 11778, 11816, 11821,
  11826, 11831, 11836, 11841, 11879, 11884, 11889, 11894, 11899, 11904,
  11942, 11947, 11952, 11957, 11962, 11967 }

\* slippageFactor with the slippage added to the base instead of taken off
slippageFactorAdded(slippage) ==
  (BpsBase + slippage) - (IF slippage \in FloorShortSlippages THEN 1 ELSE 0)

\* Math.floor(slippageMultiplier * 10000) with
\* slippageMultiplier = (10000 - slippage) / 10000
slippageFactor(slippage) ==
  (BpsBase - slippage) - (IF slippage \in FloorShortSlippages THEN 1 ELSE 0)

\* (amountOut * factor) / 10000n on bigints (the quotient truncates toward
\* zero), for amountOut >= 0; the product is split so that no intermediate
\* value leaves TLC's integers
minAmountOut(amountOut, factor) ==
  LET q == amountOut \div BpsBase
      r == amountOut % BpsBase
  IN IF factor >= 0
       THEN q * factor + ((r * factor) \div BpsBase)
       ELSE -(q * (-factor) + ((r * (-factor)) \div BpsBase))

(***************************************************************************)
(* Tokens, amounts and fee tiers.                                           *)
(***************************************************************************)
FEE_LOWEST == 100
FEE_LOW == 500
FEE_MEDIUM == 1000
FEE_HIGH == 3000
FEE_HIGHEST == 10000
FeeTiers == {FEE_LOWEST, FEE_LOW, FEE_MEDIUM, FEE_HIGH, FEE_HIGHEST}

DEFAULT_SLIPPAGE == 50

\* token addresses, named by their symbol in SWAP_TOKENS
Tokens == {"WKAIA", "USDT", "BORA"}

\* SWAP_TOKENS.KAIA, the native token (the zero address)
KAIA == "KAIA"

\* token strings of a request: the symbols of SWAP_TOKENS (each stands for its
\* address too), "0xZZ" for a string of 42 characters that starts with 0x and
\* is not hexadecimal, "FOO" for any other string that is no symbol
KnownSymbols == Tokens \cup {KAIA}
TokenStrings == KnownSymbols \cup {"0xZZ", "FOO"}

\* token.startsWith('0x') && token.length === 42
LooksLikeAddress(token) == token \in KnownSymbols \cup {"0xZZ"}

\* viem's isAddress, applied when a call is encoded: 0x and 40 hex digits
Encodable(token) == token \in KnownSymbols

\* WalletAgent.parseTokenSymbol: does it throw
parseTokenSymbolThrows(token) == token \notin KnownSymbols /\ ~LooksLikeAddress(token)

\* WalletAgent.getSwapTokenDecimals on the tokens of SWAP_TOKENS
getSwapTokenDecimals(token) == IF token = "USDT" THEN Decimals6 ELSE Decimals18

\* a decimal string: n * 10^(-f), with f digits after the point
Dec(n, f) == [n |-> n, f |-> f]

\* largest raw amount a request of the model may denote
MaxRaw == 20000000

\* viem parseUnits(value, decimals): pads the fraction to `decimals` digits,
\* or rounds it (half up) when it is longer
parseUnits(a, decimals) ==
  IF a.f <= decimals THEN a.n * Pow10(decimals - a.f)
  ELSE IF a.f - decimals > 9 THEN 0
  ELSE (a.n + 5 * Pow10(a.f - decimals - 1)) \div Pow10(a.f - decimals)

\* parseUnits(a, decimals) stays within MaxRaw
UnitsFit(a, decimals) ==
  a.f > decimals
    \/ (decimals - a.f <= 9 /\ a.n <= MaxRaw \div Pow10(decimals - a.f))

\* viem formatUnits(value, decimals), as a decimal string
formatUnits(value, decimals) == Dec(value, decimals)

\* parseFloat of a decimal string
parseFloat(a) == FDiv(FromInt(a.n), FPow10(a.f))

(***************************************************************************)
(* PoolStateReader.  A pool of the chain: whether the factory knows it, the *)
(* values its view functions return, and which read of it fails.            *)
(* fault: "none", "factory" (getPool throws), "multicall" (the batch        *)
(* throws), or the one call of the batch that fails ("token0", "token1",    *)
(* "fee", "liquidity", "slot0"): viem's multicall reports a failed call as  *)
(* {status: 'failure', result: undefined} and does not throw.               *)
(***************************************************************************)
Pool(addr, t0, t1, liq, sqrt, fault) ==
  [exists |-> TRUE, address |-> addr, token0 |-> t0, token1 |-> t1,
   liquidity |-> liq, sqrtPriceX96 |-> sqrt, fault |-> fault]

NoPool == [exists |-> FALSE, address |-> "0x0", token0 |-> "0x0", token1 |-> "0x0",
           liquidity |-> 0, sqrtPriceX96 |-> 0, fault |-> "none"]

\* the value of a field whose read failed
Undefined == "undefined"

\* what a read for a token string that is no address meets: viem throws
\* InvalidAddressError when it encodes the call, before any request is sent
NotEncoded == [exists |-> FALSE, address |-> "0x0", token0 |-> "0x0", token1 |-> "0x0",
               liquidity |-> 0, sqrtPriceX96 |-> 0, fault |-> "encode"]

\* getPoolInfo returned null
Null == [found |-> FALSE, address |-> "0x0", token0 |-> Undefined, token1 |-> Undefined,
         liquidity |-> 0, sqrtPriceX96 |-> 0]

\* WalletAgent.getPoolInfo / DragonSwapRouter.getPoolInfo on pool p
getPoolInfo(p) ==
  IF p.fault \in {"factory", "encode"} THEN Null
  ELSE IF ~p.exists THEN Null
  ELSE IF p.fault = "multicall" THEN Null
  ELSE [found |-> TRUE,
        address |-> p.address,
        token0 |-> IF p.fault = "token0" THEN Undefined ELSE p.token0,
        token1 |-> IF p.fault = "token1" THEN Undefined ELSE p.token1,
        liquidity |-> IF p.fault = "liquidity" THEN 0 ELSE p.liquidity,
        sqrtPriceX96 |-> IF p.fault = "slot0" THEN 0 ELSE p.sqrtPriceX96]

(***************************************************************************)
(* The probe of one fee tier.                                               *)
(***************************************************************************)
NoQuote == [tokenIn |-> "0x0", tokenOut |-> "0x0", amountIn |-> 0, amountOut |-> 0,
            amountInFormatted |-> Dec(0, 0), amountOutFormatted |-> Dec(0, 0),
            pool |-> [address |-> "0x0", fee |-> 0, liquidity |-> 0]]

\* what a probe yields: the quote, or the error thrown; `computed` tells
\* whether calculateAmountOutFromSqrtPrice was called
Probed(outcome, quote, computed, isToken0Input) ==
  [outcome |-> outcome, quote |-> quote, computed |-> computed,
   isToken0Input |-> isToken0Input]

\* calculateQuoteFromPool once the output amount is computed
quoteFromAmountOut(poolInfo, tokenIn, tokenOut, amountIn, fee, isToken0Input, amountOutWei) ==
  \* BigInt(Infinity), BigInt(NaN)
  IF amountOutWei.thrown THEN Probed("RangeError", NoQuote, TRUE, isToken0Input)
  ELSE Probed("ok",
              [tokenIn |-> tokenIn, tokenOut |-> tokenOut,
               amountIn |-> parseUnits(amountIn, getSwapTokenDecimals(tokenIn)),
               amountOut |-> amountOutWei.value,
               amountInFormatted |-> amountIn,
               amountOutFormatted |-> formatUnits(amountOutWei.value,
                                                  getSwapTokenDecimals(tokenOut)),
               pool |-> [address |-> poolInfo.address, fee |-> fee,
                         liquidity |-> poolInfo.liquidity]],
              TRUE, isToken0Input)

\* quoteFromPoolInfo without the check of the liquidity
quoteFromPoolInfoAnyLiquidity(poolInfo, tokenIn, tokenOut, amountIn, fee) ==
  IF ~poolInfo.found THEN Probed("PoolNotFound", NoQuote, FALSE, FALSE)
  ELSE IF poolInfo.token0 = Undefined THEN Probed("TypeError", NoQuote, FALSE, FALSE)
  ELSE quoteFromAmountOut(poolInfo, tokenIn, tokenOut, amountIn, fee,
         tokenIn = poolInfo.token0,
         calculateAmountOutFromSqrtPrice(
           poolInfo.sqrtPriceX96,
           parseUnits(amountIn, getSwapTokenDecimals(tokenIn)),
           getSwapTokenDecimals(tokenIn), getSwapTokenDecimals(tokenOut),
           tokenIn = poolInfo.token0))

\* calculateQuoteFromPool once getPoolInfo has returned poolInfo
quoteFromPoolInfo(poolInfo, tokenIn, tokenOut, amountIn, fee) ==
  IF ~poolInfo.found THEN Probed("PoolNotFound", NoQuote, FALSE, FALSE)
  ELSE IF poolInfo.liquidity = 0 THEN Probed("NoLiquidity", NoQuote, FALSE, FALSE)
  \* poolInfo.token0.toLowerCase() on undefined
  ELSE IF poolInfo.token0 = Undefined THEN Probed("TypeError", NoQuote, FALSE, FALSE)
  ELSE quoteFromAmountOut(poolInfo, tokenIn, tokenOut, amountIn, fee,
         tokenIn = poolInfo.token0,
         calculateAmountOutFromSqrtPrice(
           poolInfo.sqrtPriceX96,
           parseUnits(amountIn, getSwapTokenDecimals(tokenIn)),
           getSwapTokenDecimals(tokenIn), getSwapTokenDecimals(tokenOut),
           tokenIn = poolInfo.token0))

\* WalletAgent.calculateQuoteFromPool
calculateQuoteFromPool(p, tokenIn, tokenOut, amountIn, amountInDecimals, fee) ==
  quoteFromPoolInfo(getPoolInfo(p), tokenIn, tokenOut, amountIn, fee)

(***************************************************************************)
(* QuoteSelector.                                                           *)
(***************************************************************************)
\* WalletAgent.calculateLiquidityScore
calculateLiquidityScore(quote, amountInWei) ==
  LET poolLiquidity == quote.pool.liquidity
      tradeSizeRatio == FDiv(FromInt(amountInWei), FromInt(poolLiquidity))
  IN IF poolLiquidity = 0 THEN FZero
     ELSE FDiv(FOne, FAdd(FOne, FMul(tradeSizeRatio, FTen)))

\* (tradeSize / (tradeSize + liquidity)) * 100
priceImpactOf(tradeSize, liquidity) ==
  FMul(FDiv(tradeSize, FAdd(tradeSize, liquidity)), FHundred)

\* WalletAgent.calculatePriceImpact
calculatePriceImpact(quote, amountInWei) ==
  IF quote.pool.liquidity = 0 THEN FHundred
  ELSE FMin(priceImpactOf(FromInt(amountInWei), FromInt(quote.pool.liquidity)),
            FHundred)

\* a probed quote as getSwapQuote pushes it on the candidate list
Candidate(quote, fee, amountInWei) ==
  [tokenIn |-> quote.tokenIn, tokenOut |-> quote.tokenOut,
   amountIn |-> quote.amountIn, amountOut |-> quote.amountOut,
   amountInFormatted |-> quote.amountInFormatted,
   amountOutFormatted |-> quote.amountOutFormatted,
   pool |-> quote.pool,
   liquidityScore |-> calculateLiquidityScore(quote, amountInWei),
   feeTier |-> fee,
   priceImpact |-> calculatePriceImpact(quote, amountInWei),
   scored |-> FALSE, combinedScore |-> FZero]

\* Math.max(a, b)
FMax(a, b) ==
  IF IsNaN(a) \/ IsNaN(b) THEN FNaN ELSE IF FLess(a, b) THEN b ELSE a

\* Math.max over the parsed outputs of the candidates
RECURSIVE maxOutput(_)
maxOutput(qs) ==
  IF Len(qs) = 1 THEN parseFloat(qs[1].amountOutFormatted)
  ELSE FMax(parseFloat(qs[1].amountOutFormatted), maxOutput(Tail(qs)))

\* the score selectBestQuote gives to quote q of the list qs
combinedScore(q, qs) ==
  LET outputAmount == parseFloat(q.amountOutFormatted)
      outputScore == FDiv(outputAmount, maxOutput(qs))
      priceImpactPenalty == FDiv(q.priceImpact, FHundred)
      feePenalty == FDiv(FromInt(q.feeTier), FromInt(10000))
  IN FAdd(FAdd(FAdd(FMul(outputScore, RoundRat(4, 10)),
                    FMul(q.liquidityScore, RoundRat(3, 10))),
               FMul(FSub(FOne, priceImpactPenalty), RoundRat(2, 10))),
          FMul(FSub(FOne, feePenalty), RoundRat(1, 10)))

\* reduceBest with the comparison reversed
RECURSIVE reduceWorst(_, _)
reduceWorst(best, rest) ==
  IF rest = <<>> THEN best
  ELSE reduceWorst(IF FLess(Head(rest).combinedScore, best.combinedScore)
                     THEN Head(rest) ELSE best,
                   Tail(rest))

\* scoredQuotes.reduce((best, current) =>
\*   current.combinedScore > best.combinedScore ? current : best)
RECURSIVE reduceBest(_, _)
reduceBest(best, rest) ==
  IF rest = <<>> THEN best
  ELSE reduceBest(IF FLess(best.combinedScore, Head(rest).combinedScore)
                    THEN Head(rest) ELSE best,
                  Tail(rest))

\* the candidates with their scores, in the order of the list
scoredQuotes(qs) ==
  [i \in 1..Len(qs) |->
     [qs[i] EXCEPT !.scored = TRUE, !.combinedScore = combinedScore(qs[i], qs)]]

\* the reduce over a non-empty list, without an initial value
reduceQuotes(scored) == reduceBest(scored[1], Tail(scored))

\* the selection by the largest raw output alone
RECURSIVE largestOutput(_, _)
largestOutput(best, rest) ==
  IF rest = <<>> THEN best
  ELSE largestOutput(IF Head(rest).amountOut > best.amountOut THEN Head(rest) ELSE best,
                     Tail(rest))
selectLargestOutput(qs) == largestOutput(qs[1], Tail(qs))

\* selectBestQuote scoring a single candidate as it scores several
selectBestQuoteAlwaysScored(qs) == reduceQuotes(scoredQuotes(qs))

\* WalletAgent.selectBestQuote, for a non-empty list
selectBestQuote(qs) ==
  IF Len(qs) = 1 THEN qs[1] ELSE reduceQuotes(scoredQuotes(qs))

(***************************************************************************)
(* FeeTierStrategy.                                                         *)
(***************************************************************************)
\* the category of a trade of amountInHuman tokens
categoryOf(amountInHuman) ==
  IF FLess(amountInHuman, FTen) THEN "micro"
  ELSE IF FLess(amountInHuman, FHundred) THEN "small"
  ELSE IF FLess(amountInHuman, FromInt(1000)) THEN "medium"
  ELSE IF FLess(amountInHuman, FromInt(10000)) THEN "large"
  ELSE "whale"

\* WalletAgent.categorizeTradeSize
categorizeTradeSize(amountInWei, amountInDecimals) ==
  categoryOf(FDiv(FromInt(amountInWei), FPow10(amountInDecimals)))

\* tiersOf probing the 1% tier twice, and never the 0.01% tier, for a whale
tiersOfRepeated(tradeSizeCategory) ==
  IF tradeSizeCategory = "whale"
    THEN <<FEE_HIGHEST, FEE_HIGH, FEE_MEDIUM, FEE_LOW, FEE_HIGHEST>>
    ELSE <<FEE_LOWEST, FEE_LOW, FEE_MEDIUM, FEE_HIGH, FEE_HIGHEST>>

\* the probe order of a trade size category
tiersOf(tradeSizeCategory) ==
  CASE tradeSizeCategory = "micro" ->
         <<FEE_LOWEST, FEE_LOW, FEE_MEDIUM, FEE_HIGH, FEE_HIGHEST>>
    [] tradeSizeCategory = "small" ->
         <<FEE_LOW, FEE_MEDIUM, FEE_LOWEST, FEE_HIGH, FEE_HIGHEST>>
    [] tradeSizeCategory = "medium" ->
         <<FEE_MEDIUM, FEE_HIGH, FEE_LOW, FEE_LOWEST, FEE_HIGHEST>>
    [] tradeSizeCategory = "large" ->
         <<FEE_HIGH, FEE_MEDIUM, FEE_HIGHEST, FEE_LOW, FEE_LOWEST>>
    [] tradeSizeCategory = "whale" ->
         <<FEE_HIGHEST, FEE_HIGH, FEE_MEDIUM, FEE_LOW, FEE_LOWEST>>

\* WalletAgent.getOptimalFeeTiers
getOptimalFeeTiers(amountInWei, amountInDecimals) ==
  tiersOf(categorizeTradeSize(amountInWei, amountInDecimals))

(***************************************************************************)
(* The WalletAgent and its construction.                                    *)
(***************************************************************************)
\* the argument of new WalletAgent(...): nothing, a private-key string, or an
\* object {privateKey?, mode?}; a key is "valid" (64 hex digits, with or
\* without 0x), "invalid" (any other non-empty string) or the empty string
AgentConfigs ==
  {[form |-> "none", privateKey |-> Undefined, mode |-> Undefined]}
    \cup {[form |-> "string", privateKey |-> k, mode |-> Undefined] :
            k \in {"valid", "invalid", ""}}
    \cup {[form |-> "object", privateKey |-> k, mode |-> m] :
            k \in {Undefined, "valid", "invalid", ""},
            m \in {Undefined, "readonly", "transaction"}}

\* privateKeyOf keeping the key of an object whatever its mode
privateKeyOfAnyMode(config) ==
  IF config.form \in {"string", "object"} THEN config.privateKey ELSE Undefined

\* the local privateKey of the constructor
privateKeyOf(config) ==
  IF config.form = "string" THEN config.privateKey
  ELSE IF config.form = "object" /\ config.mode # "readonly" THEN config.privateKey
  ELSE Undefined

\* if (privateKey): undefined and '' are falsy
Truthy(k) == k \notin {Undefined, ""}

\* the fields of the agent once the constructor has run on a key
agentOfKey(config, key) ==
  [config |-> config,
   thrown |-> Truthy(key) /\ key # "valid",
   account |-> key = "valid",
   isReadonly |-> key # "valid"]

\* new WalletAgent(config)
WalletAgent(config) == agentOfKey(config, privateKeyOf(config))

\* the agents the constructor returns
Agents == {WalletAgent(c) : c \in {k \in AgentConfigs : ~WalletAgent(k).thrown}}

\* new WalletAgent()
ReadonlyAgent == WalletAgent([form |-> "none", privateKey |-> Undefined, mode |-> Undefined])

\* a thrown Error and its message, as the list of its parts
Error(kind, message) == [kind |-> kind, message |-> message]
NoError == Error("none", <<>>)

\* what requireTransactionMode throws on a read-only agent
TransactionModeError ==
  Error("TransactionMode",
        <<"This operation requires transaction mode. ",
          "Provide a private key to enable transactions.">>)

\* no executeSwap call, no tool call and no other call yet
NoExec ==
  [stage |-> "idle", via |-> "none", tokenIn |-> "0x0", tokenOut |-> "0x0",
   deadline |-> 0, deadlineTimestamp |-> 0, quotedAt |-> 0,
   quote |-> [amountIn |-> 0, amountOut |-> 0, fee |-> 0],
   allowance |-> -1, allowanceRead |-> FALSE, approvalRequested |-> FALSE,
   approvalMined |-> FALSE,
   outcome |-> [status |-> "none", error |-> NoError, hash |-> 0]]
NoCall == [op |-> "none", status |-> "none", error |-> NoError, n |-> 0]

\* nothing but quoting happens: a read-only agent, no swap, no tool, no call
NoSwap ==
  /\ agent = ReadonlyAgent
  /\ exec = NoExec
  /\ reads = 0
  /\ txs = <<>>
  /\ clock = 0
  /\ tool = [stage |-> "idle"]
  /\ call = NoCall

(***************************************************************************)
(* SwapQuoteService: WalletAgent.getSwapQuote, one step per await.          *)
(***************************************************************************)
NoReturn == [tokenIn |-> "0x0", tokenOut |-> "0x0", amountIn |-> 0, amountOut |-> 0,
             amountInFormatted |-> Dec(0, 0), amountOutFormatted |-> Dec(0, 0),
             pool |-> [address |-> "0x0", fee |-> 0, liquidity |-> 0],
             liquidityScore |-> FZero, feeTier |-> 0, priceImpact |-> FZero,
             scored |-> FALSE, combinedScore |-> FZero,
             estimatedPrice |-> FZero, selectedFeeTier |-> 0,
             tradeSizeCategory |-> "none"]

NoResult == [status |-> "none", quote |-> NoReturn, error |-> NoError]

NoRequest == [tokenIn |-> "0x0", tokenOut |-> "0x0", amountIn |-> Dec(0, 0),
              amountInDecimals |-> 0, slippage |-> 0]

NoCalc == [fn |-> "none"]

\* const amountInWei = parseUnits(amountIn, amountInDecimals)
amountInWeiOf(r) == parseUnits(r.amountIn, r.amountInDecimals)

\* the object getSwapQuote returns for the selected quote
returnedQuote(bestQuote, r) ==
  [tokenIn |-> bestQuote.tokenIn, tokenOut |-> bestQuote.tokenOut,
   amountIn |-> bestQuote.amountIn,
   amountOut |-> minAmountOut(bestQuote.amountOut, slippageFactor(r.slippage)),
   amountInFormatted |-> bestQuote.amountInFormatted,
   amountOutFormatted |-> bestQuote.amountOutFormatted,
   pool |-> bestQuote.pool,
   liquidityScore |-> bestQuote.liquidityScore,
   feeTier |-> bestQuote.feeTier,
   priceImpact |-> bestQuote.priceImpact,
   scored |-> bestQuote.scored, combinedScore |-> bestQuote.combinedScore,
   estimatedPrice |-> FDiv(parseFloat(bestQuote.amountOutFormatted),
                           parseFloat(bestQuote.amountInFormatted)),
   selectedFeeTier |-> bestQuote.feeTier,
   tradeSizeCategory |-> categorizeTradeSize(amountInWeiOf(r), r.amountInDecimals)]

\* what getSwapQuote returns or throws once every tier is probed
quoteOutcome(qs, r) ==
  IF Len(qs) = 0
    THEN [status |-> "error", quote |-> NoReturn,
          error |-> Error("NoPool",
                          <<"Failed to get quote: ",
                            "No available pools found for this token pair">>)]
    ELSE [status |-> "ok", quote |-> returnedQuote(selectBestQuote(qs), r),
          error |-> NoError]

\* the error parseTokenSymbol throws for the first unresolvable token of r
invalidTokenError(r) ==
  Error("InvalidToken",
        <<"Invalid token address or symbol: ",
          IF parseTokenSymbolThrows(r.tokenIn) THEN r.tokenIn ELSE r.tokenOut>>)

\* getSwapQuote(r) up to the loop: defaults, parseTokenSymbol of both tokens
\* (a throw leaves the method at once), amountInWei, the probe order
startQuote(r) ==
  /\ req' = r
  /\ quotes' = <<>>
  /\ probes' = <<>>
  /\ IF parseTokenSymbolThrows(r.tokenIn) \/ parseTokenSymbolThrows(r.tokenOut)
       THEN /\ tiers' = <<>>
            /\ pc' = "done"
            /\ result' = [status |-> "error", quote |-> NoReturn,
                          error |-> invalidTokenError(r)]
       ELSE /\ tiers' = getOptimalFeeTiers(amountInWeiOf(r), r.amountInDecimals)
            /\ pc' = "probing"
            /\ result' = result

\* a call of getSwapQuote
GetSwapQuote(r) ==
  /\ pc = "idle"
  /\ exec.stage = "idle"
  /\ startQuote(r)
  /\ UNCHANGED <<chain, calc, reads, swapVars>>

\* the chain reads of getPoolInfo on pool p: the factory's getPool and, when it
\* returned a pool, the batched pool read (the decimals of the tokens of
\* SWAP_TOKENS are not read)
readsOfProbe(p) ==
  IF p.fault = "encode" THEN 0 ELSE IF p.exists /\ p.fault # "factory" THEN 2 ELSE 1

\* the pool the reads of a probe of tier fee meet, for the tokens of the request
poolRead(tokenIn, tokenOut, fee) ==
  IF Encodable(tokenIn) /\ Encodable(tokenOut) THEN chain[fee] ELSE NotEncoded

\* the balance reads at the end of getSwapQuote: none without candidates or
\* without a wallet address, else the two balances; the second is not read
\* when the first read throws
readsOfBalances(qs, firstRead) ==
  IF Len(qs) = 0 \/ ~agent.account THEN 0 ELSE IF firstRead THEN 2 ELSE 1

\* recordProbe without the catch: whatever the probe yields is pushed
recordProbeUnchecked(fee, pr) ==
  /\ quotes' = Append(quotes, Candidate(pr.quote, fee, amountInWeiOf(req)))
  /\ probes' = Append(probes, [fee |-> fee, outcome |-> pr.outcome,
                               computed |-> pr.computed,
                               isToken0Input |-> pr.isToken0Input,
                               poolInfo |-> getPoolInfo(poolRead(req.tokenIn, req.tokenOut, fee))])

\* the effect of a probe of tier fee that yielded pr: a quote is pushed on the
\* candidate list, an error is caught and the loop continues
recordProbe(fee, pr) ==
  /\ quotes' = IF pr.outcome = "ok"
                 THEN Append(quotes, Candidate(pr.quote, fee, amountInWeiOf(req)))
                 ELSE quotes
  /\ probes' = Append(probes, [fee |-> fee, outcome |-> pr.outcome,
                               computed |-> pr.computed,
                               isToken0Input |-> pr.isToken0Input,
                               poolInfo |-> getPoolInfo(poolRead(req.tokenIn, req.tokenOut, fee))])

\* one iteration of the loop over prioritizedFeeTiers
ProbeTier ==
  /\ pc = "probing"
  /\ tiers # <<>>
  /\ recordProbe(Head(tiers),
                 calculateQuoteFromPool(poolRead(req.tokenIn, req.tokenOut, Head(tiers)),
                                        req.tokenIn, req.tokenOut,
                                        req.amountIn, req.amountInDecimals, Head(tiers)))
  /\ tiers' = Tail(tiers)
  /\ reads' = reads + readsOfProbe(poolRead(req.tokenIn, req.tokenOut, Head(tiers)))
  /\ UNCHANGED <<chain, pc, req, result, calc, swapVars>>

\* after the loop: no candidate is an error, else selection and slippage
FinishQuote ==
  /\ pc = "probing"
  /\ tiers = <<>>
  /\ result' = quoteOutcome(quotes, req)
  /\ pc' = "done"
  /\ \E firstRead \in BOOLEAN : reads' = reads + readsOfBalances(quotes, firstRead)
  /\ UNCHANGED <<chain, req, tiers, quotes, probes, calc, swapVars>>

(***************************************************************************)
(* SwapExecutor: WalletAgent.executeSwap and                                *)
(* DragonSwapRouter.executeExactInputSwap, one step per await.  The two     *)
(* methods differ in the guard of the mode and in the quote they derive.    *)
(***************************************************************************)
DEFAULT_DEADLINE == 20

\* a transaction submitted by walletClient.writeContract
Tx(kind, tokenIn, tokenOut, fee, amountIn, amountOutMinimum, deadline, value, at) ==
  [kind |-> kind, tokenIn |-> tokenIn, tokenOut |-> tokenOut, fee |-> fee,
   amountIn |-> amountIn, amountOutMinimum |-> amountOutMinimum,
   deadline |-> deadline, value |-> value, at |-> at]

\* the call ends by throwing err
failed(e, err) ==
  [e EXCEPT !.stage = "done",
            !.outcome = [status |-> "error", error |-> err, hash |-> 0]]

\* quote.route?.pools[0]?.fee || FEE_TIERS.MEDIUM
feeOfQuote(fee) == IF fee = 0 THEN FEE_MEDIUM ELSE fee

\* from the quote to the approval step: the deadline timestamp is taken, a
\* tokenIn other than the native token goes through approveSwapToken
afterQuote(e, amountIn, amountOut, fee) ==
  [e EXCEPT !.quote = [amountIn |-> amountIn, amountOut |-> amountOut,
                       fee |-> feeOfQuote(fee)],
            !.quotedAt = clock,
            !.deadlineTimestamp = clock + e.deadline * 60,
            !.stage = IF e.tokenIn # KAIA THEN "allowance" ELSE "simulate"]

\* executeSwap(r) with deadline d: requireTransactionMode, then getSwapQuote
ExecuteSwap(r, d) ==
  /\ pc = "idle"
  /\ exec.stage = "idle"
  /\ tool.stage = "idle"
  /\ IF agent.isReadonly
       THEN /\ exec' = failed([exec EXCEPT !.via = "agent"], TransactionModeError)
            /\ UNCHANGED <<pc, req, tiers, quotes, probes, result>>
       ELSE /\ exec' = [exec EXCEPT !.stage = "quote", !.via = "agent",
                                    !.tokenIn = r.tokenIn, !.tokenOut = r.tokenOut,
                                    !.deadline = d]
            /\ startQuote(r)
  /\ UNCHANGED <<chain, calc, reads, agent, txs, clock, tool, call>>

\* getSwapQuote has returned or thrown inside executeSwap
AfterQuote ==
  /\ exec.stage = "quote"
  /\ exec.via = "agent"
  /\ pc = "done"
  /\ exec' = IF result.status = "error" THEN failed(exec, result.error)
             ELSE afterQuote(exec, result.quote.amountIn, result.quote.amountOut,
                             result.quote.pool.fee)
  /\ UNCHANGED <<chain, pc, req, tiers, quotes, probes, result, calc, reads,
                 agent, txs, clock, tool, call>>

\* what the allowance read can return for a swap of amountIn: -1 stands for a
\* read that throws
AllowanceReads(amountIn) == {a \in {amountIn - 1, amountIn, amountIn + 1, 0} : a >= 0} \cup {-1}

\* afterAllowance going on to the swap when the allowance read throws
afterAllowanceUnchecked(e, a) ==
  [e EXCEPT !.allowance = a, !.allowanceRead = (a # -1),
            !.stage = IF a = -1 \/ a >= e.quote.amountIn THEN "simulate" ELSE "approveSim"]

\* afterAllowance approving also when the allowance equals the amount
afterAllowanceStrict(e, a) ==
  IF a = -1 THEN failed(e, Error("ReadError", <<"allowance">>))
  ELSE [e EXCEPT !.allowance = a, !.allowanceRead = TRUE,
                 !.stage = IF a > e.quote.amountIn THEN "simulate" ELSE "approveSim"]

\* approveSwapToken after the allowance read returned a (or threw)
afterAllowance(e, a) ==
  IF a = -1 THEN failed(e, Error("ReadError", <<"allowance">>))
  ELSE [e EXCEPT !.allowance = a, !.allowanceRead = TRUE,
                 !.stage = IF a >= e.quote.amountIn THEN "simulate" ELSE "approveSim"]

\* approveSwapToken: the allowance of the account to the swap router is read
ReadAllowance ==
  /\ exec.stage = "allowance"
  /\ reads' = reads + 1
  /\ \E a \in AllowanceReads(exec.quote.amountIn) : exec' = afterAllowance(exec, a)
  /\ UNCHANGED <<chain, pc, req, tiers, quotes, probes, result, calc,
                 agent, txs, clock, tool, call>>

\* approveSwapToken: the approval of maxUint256 is simulated
SimulateApprove ==
  /\ exec.stage = "approveSim"
  /\ reads' = reads + 1
  /\ \E ok \in BOOLEAN :
        exec' = IF ok THEN [exec EXCEPT !.approvalRequested = TRUE, !.stage = "approveWrite"]
                ELSE failed([exec EXCEPT !.approvalRequested = TRUE],
                            Error("ContractError", <<"approve">>))
  /\ UNCHANGED <<chain, pc, req, tiers, quotes, probes, result, calc,
                 agent, txs, clock, tool, call>>

\* approveSwapToken: the approval is submitted
WriteApprove ==
  /\ exec.stage = "approveWrite"
  /\ \E ok \in BOOLEAN :
        IF ok
          THEN /\ txs' = Append(txs, Tx("approve", exec.tokenIn, "0x0", 0, 0, 0, 0, 0, clock))
               /\ exec' = [exec EXCEPT !.stage = "simulate"]
          ELSE /\ txs' = txs
               /\ exec' = failed(exec, Error("ContractError", <<"approve">>))
  /\ UNCHANGED <<chain, pc, req, tiers, quotes, probes, result, calc, reads,
                 agent, clock, tool, call>>

\* the approval this call submitted is included in a block; the call does
\* not wait for it
ConfirmApproval ==
  /\ exec.stage \in {"simulate", "write"}
  /\ \E i \in 1..Len(txs) : txs[i].kind = "approve"
  /\ ~exec.approvalMined
  /\ exec' = [exec EXCEPT !.approvalMined = TRUE]
  /\ UNCHANGED <<chain, pc, req, tiers, quotes, probes, result, calc, reads,
                 agent, txs, clock, tool, call>>

\* the swap parameters are encoded as uint256: a negative amount throws
swapEncodes(e) == e.quote.amountOut >= 0 /\ e.quote.amountIn >= 0

\* the router can pull amountIn from the account in the block the simulation
\* runs on: the input is native, the allowance read covered the amount (or
\* was not read), or the approval is in a block; else transferFrom reverts
routerCanPull(e) ==
  \/ e.tokenIn = KAIA
  \/ ~e.allowanceRead
  \/ e.allowance >= e.quote.amountIn
  \/ e.approvalMined

\* publicClient.simulateContract of exactInputSingle
SimulateSwap ==
  /\ exec.stage = "simulate"
  /\ reads' = reads + (IF swapEncodes(exec) THEN 1 ELSE 0)
  /\ \E ok \in BOOLEAN :
        exec' = IF ok /\ swapEncodes(exec) /\ routerCanPull(exec)
                  THEN [exec EXCEPT !.stage = "write"]
                ELSE failed(exec, Error("ContractError", <<"exactInputSingle">>))
  /\ UNCHANGED <<chain, pc, req, tiers, quotes, probes, result, calc,
                 agent, txs, clock, tool, call>>

\* swapTx with the slippage of the request applied to the quote's minimum again
swapTxSlippedTwice(e) ==
  Tx("swap", e.tokenIn, e.tokenOut, e.quote.fee, e.quote.amountIn,
     minAmountOut(e.quote.amountOut, slippageFactor(req.slippage)),
     e.deadlineTimestamp, IF e.tokenIn = KAIA THEN e.quote.amountIn ELSE 0, clock)

\* the swap transaction the call submits
swapTx(e) ==
  Tx("swap", e.tokenIn, e.tokenOut, e.quote.fee, e.quote.amountIn, e.quote.amountOut,
     e.deadlineTimestamp, IF e.tokenIn = KAIA THEN e.quote.amountIn ELSE 0, clock)

\* the call returns the hash of the transaction it submitted last
returned(e, hash) ==
  [e EXCEPT !.stage = "done",
            !.outcome = [status |-> "ok", error |-> NoError, hash |-> hash]]

\* submitSwap trying again after a submission whose outcome was lost
submitSwapRetried(ok) ==
  IF ok
    THEN /\ txs' = Append(txs, swapTx(exec))
         /\ exec' = returned(exec, Len(txs) + 1)
    ELSE /\ txs' = Append(txs, swapTx(exec))
         /\ exec' = [exec EXCEPT !.stage = "simulate"]

\* the effect of walletClient.writeContract(request) for the swap
submitSwap(ok) ==
  IF ok
    THEN /\ txs' = Append(txs, swapTx(exec))
         /\ exec' = returned(exec, Len(txs) + 1)
    ELSE /\ txs' = txs
         /\ exec' = failed(exec, Error("ContractError", <<"exactInputSingle">>))

\* walletClient.writeContract(request) for the swap; the hash is returned
WriteSwap ==
  /\ exec.stage = "write"
  /\ \E ok \in BOOLEAN : submitSwap(ok)
  /\ UNCHANGED <<chain, pc, req, tiers, quotes, probes, result, calc, reads,
                 agent, clock, tool, call>>

\* largest time that passes during a call, in seconds
MaxClock == 2

\* time passes while the call awaits the chain
Tick ==
  /\ exec.stage \in {"allowance", "approveSim", "approveWrite", "simulate", "write"}
  /\ clock < MaxClock
  /\ clock' = clock + 1
  /\ UNCHANGED <<chain, pc, req, tiers, quotes, probes, result, calc, reads,
                 agent, exec, txs, tool, call>>

(***************************************************************************)
(* The chains and the requests of the model.                                *)
(***************************************************************************)
PoolChoices(fee) ==
  CASE fee = FEE_LOWEST ->
         {NoPool,
          Pool("0xA", "WKAIA", "USDT", 64, 4, "none"),
          Pool("0xA", "WKAIA", "USDT", 0, 4, "none"),
          Pool("0xA", "WKAIA", "USDT", 64, 4, "liquidity")}
    [] fee = FEE_LOW ->
         {NoPool,
          Pool("0xB", "WKAIA", "USDT", 64, 4, "none"),
          Pool("0xB", "WKAIA", "USDT", 64, 4, "slot0")}
    [] fee = FEE_MEDIUM ->
         {NoPool,
          Pool("0xC", "BORA", "USDT", 8, 4, "none"),
          Pool("0xC", "WKAIA", "USDT", 8, 4, "factory")}
    [] fee = FEE_HIGH ->
         {NoPool,
          Pool("0xD", "WKAIA", "USDT", 1, 5, "none"),
          Pool("0xD", "WKAIA", "USDT", 1, 5, "token0"),
          Pool("0xD", "WKAIA", "USDT", 1, 5, "multicall")}
    [] fee = FEE_HIGHEST ->
         {NoPool,
          Pool("0xE", "WKAIA", "USDT", 8, 4, "none"),
          Pool("0xE", "WKAIA", "USDT", 8, 4, "token1")}

AmountsIn == {Dec(8, 18), Dec(10, 0)}
Slippages == {0, DEFAULT_SLIPPAGE, 1810, 10000, 12000}
Pairs == {<<"WKAIA", "USDT">>, <<"USDT", "WKAIA">>}

Requests ==
  {r \in [tokenIn : Tokens, tokenOut : Tokens, amountIn : AmountsIn,
          amountInDecimals : {Decimals6, Decimals18}, slippage : Slippages] :
     /\ <<r.tokenIn, r.tokenOut>> \in Pairs
     /\ UnitsFit(r.amountIn, r.amountInDecimals)
     /\ UnitsFit(r.amountIn, getSwapTokenDecimals(r.tokenIn))}

Chains ==
  {[f \in FeeTiers |->
      CASE f = FEE_LOWEST -> a [] f = FEE_LOW -> b [] f = FEE_MEDIUM -> c
        [] f = FEE_HIGH -> d [] f = FEE_HIGHEST -> e] :
     a \in PoolChoices(FEE_LOWEST), b \in PoolChoices(FEE_LOW),
     c \in PoolChoices(FEE_MEDIUM), d \in PoolChoices(FEE_HIGH),
     e \in PoolChoices(FEE_HIGHEST)}

Init ==
  /\ chain \in Chains
  /\ pc = "idle"
  /\ req = NoRequest
  /\ tiers = <<>>
  /\ quotes = <<>>
  /\ probes = <<>>
  /\ result = NoResult
  /\ NoSwap
  /\ calc = NoCalc

Next ==
  \/ \E r \in Requests : GetSwapQuote(r)
  \/ ProbeTier
  \/ FinishQuote

Spec == Init /\ [][Next]_vars

(***************************************************************************)
(* Swap execution: the agents, chains and requests of the model.            *)
(***************************************************************************)
SwapPoolChoices(fee) ==
  CASE fee = FEE_LOWEST -> {NoPool, Pool("0xA", "WKAIA", "USDT", 64, 4, "none")}
    [] fee = FEE_LOW -> {NoPool,
                         Pool("0xB", "WKAIA", "USDT", 64, 4, "none"),
                         Pool("0xB", "WKAIA", "USDT", 64, 4, "slot0")}
    [] fee = FEE_MEDIUM -> {NoPool}
    [] fee = FEE_HIGH -> {NoPool, Pool("0xD", "WKAIA", "USDT", 1, 5, "none")}
    [] fee = FEE_HIGHEST -> {NoPool}

SwapChains ==
  {[f \in FeeTiers |->
      CASE f = FEE_LOWEST -> a [] f = FEE_LOW -> b [] f = FEE_MEDIUM -> NoPool
        [] f = FEE_HIGH -> d [] f = FEE_HIGHEST -> NoPool] :
     a \in SwapPoolChoices(FEE_LOWEST), b \in SwapPoolChoices(FEE_LOW),
     d \in SwapPoolChoices(FEE_HIGH)}

\* a request: the amount '0.000000000000000008' of a token of 18 decimals, the
\* amount '10' of USDT
SwapRequest(tokenIn, tokenOut, slippage) ==
  [tokenIn |-> tokenIn, tokenOut |-> tokenOut,
   amountIn |-> IF tokenIn = "USDT" THEN Dec(10, 0) ELSE Dec(8, 18),
   amountInDecimals |-> IF tokenIn = "USDT" THEN Decimals6 ELSE Decimals18,
   slippage |-> slippage]

SwapRequests ==
  {SwapRequest(p[1], p[2], sl) :
     p \in {<<"WKAIA", "USDT">>, <<"USDT", "WKAIA">>, <<KAIA, "USDT">>},
     sl \in {DEFAULT_SLIPPAGE, 10000, 12000}}
    \cup {SwapRequest(p[1], p[2], DEFAULT_SLIPPAGE) :
            p \in {<<"FOO", "USDT">>, <<"0xZZ", "USDT">>, <<"WKAIA", "FOO">>}}

\* agents: new WalletAgent(), new WalletAgent(key), new WalletAgent({privateKey:
\* key, mode: 'readonly'})
SwapAgents ==
  {ReadonlyAgent,
   WalletAgent([form |-> "string", privateKey |-> "valid", mode |-> Undefined]),
   WalletAgent([form |-> "object", privateKey |-> "valid", mode |-> "readonly"])}

SwapInit ==
  /\ chain \in SwapChains
  /\ agent \in SwapAgents
  /\ pc = "idle"
  /\ req = NoRequest
  /\ tiers = <<>>
  /\ quotes = <<>>
  /\ probes = <<>>
  /\ result = NoResult
  /\ calc = NoCalc
  /\ exec = NoExec
  /\ reads = 0
  /\ txs = <<>>
  /\ clock = 0
  /\ tool = [stage |-> "idle"]
  /\ call = NoCall

SwapNext ==
  \/ \E r \in SwapRequests : \E d \in {DEFAULT_DEADLINE, 1} : ExecuteSwap(r, d)
  \/ \E r \in SwapRequests : GetSwapQuote(r)
  \/ ProbeTier
  \/ FinishQuote
  \/ AfterQuote
  \/ ReadAllowance
  \/ SimulateApprove
  \/ WriteApprove
  \/ SimulateSwap
  \/ WriteSwap
  \/ ConfirmApproval
  \/ Tick

SpecSwap == SwapInit /\ [][SwapNext]_vars

(***************************************************************************)
(* The transaction operations of the WalletAgent other than executeSwap.    *)
(* Each starts with requireTransactionMode; what follows is kept to the     *)
(* reads it can issue and the transactions it can submit, in order: the     *)
(* last transaction is the operation's own, the ones before are submitted   *)
(* only when the market is not entered or the allowance is too low.         *)
(***************************************************************************)
TransactionOps ==
  [approveToken |-> [validated |-> TRUE, reads |-> 0, txs |-> <<"approve">>],
   enterMarkets |-> [validated |-> FALSE, reads |-> 0, txs |-> <<"enterMarkets">>],
   sendNativeToken |-> [validated |-> TRUE, reads |-> 1, txs |-> <<"send">>],
   sendERC20Token |-> [validated |-> TRUE, reads |-> 0, txs |-> <<"transfer">>],
   supplyToMarket |-> [validated |-> TRUE, reads |-> 2,
                       txs |-> <<"enterMarkets", "approve", "mint">>],
   borrowFromMarket |-> [validated |-> TRUE, reads |-> 0, txs |-> <<"borrow">>],
   repayBorrow |-> [validated |-> TRUE, reads |-> 1, txs |-> <<"approve", "repayBorrow">>]]

\* the transactions an operation submits: those of the set done among the
\* ones before the last, and the last one when ok
opTxs(kinds, done, ok) ==
  LET kept == SelectSeq([i \in 1..Len(kinds) |-> [i |-> i, kind |-> kinds[i]]],
                        LAMBDA x : IF x.i = Len(kinds) THEN ok ELSE x.i \in done)
  IN  [i \in 1..Len(kept) |-> Tx(kept[i].kind, "0x0", "0x0", 0, 0, 0, 0, 0, clock)]

\* largest number of calls of these operations in a behaviour
MaxCalls == 1

\* a call of the operation op, from requireTransactionMode to its return or
\* throw
TransactionOp(op) ==
  /\ call.n < MaxCalls
  /\ exec.stage \in {"idle", "done"}
  /\ pc \in {"idle", "done"}
  /\ tool.stage = "idle"
  /\ IF agent.isReadonly
       THEN /\ call' = [op |-> op, status |-> "error", error |-> TransactionModeError,
                        n |-> call.n + 1]
            /\ UNCHANGED <<reads, txs>>
       ELSE \E valid \in {TRUE, ~TransactionOps[op].validated} :
            \E nr \in 0..TransactionOps[op].reads :
            \E done \in SUBSET (1..(Len(TransactionOps[op].txs) - 1)) :
            \E ok \in BOOLEAN :
              IF ~valid
                THEN /\ call' = [op |-> op, status |-> "error",
                                 error |-> Error("ValidationError", <<op>>),
                                 n |-> call.n + 1]
                     /\ UNCHANGED <<reads, txs>>
                ELSE /\ call' = [op |-> op, status |-> IF ok THEN "ok" ELSE "error",
                                 error |-> IF ok THEN NoError
                                           ELSE Error("ContractError", <<op>>),
                                 n |-> call.n + 1]
                     /\ reads' = reads + nr
                     /\ txs' = txs \o opTxs(TransactionOps[op].txs, done, ok)
  /\ UNCHANGED <<chain, pc, req, tiers, quotes, probes, result, calc,
                 agent, exec, clock, tool>>

\* any agent the constructor returns; one chain with a WKAIA/USDT pool
AgentInit ==
  /\ chain = [f \in FeeTiers |->
                IF f = FEE_LOW THEN Pool("0xB", "WKAIA", "USDT", 64, 4, "none") ELSE NoPool]
  /\ agent \in Agents
  /\ pc = "idle"
  /\ req = NoRequest
  /\ tiers = <<>>
  /\ quotes = <<>>
  /\ probes = <<>>
  /\ result = NoResult
  /\ calc = NoCalc
  /\ exec = NoExec
  /\ reads = 0
  /\ txs = <<>>
  /\ clock = 0
  /\ tool = [stage |-> "idle"]
  /\ call = NoCall

AgentNext ==
  \/ \E op \in DOMAIN TransactionOps : TransactionOp(op)
  \/ ExecuteSwap(SwapRequest("WKAIA", "USDT", DEFAULT_SLIPPAGE), DEFAULT_DEADLINE)
  \/ ProbeTier
  \/ FinishQuote
  \/ AfterQuote
  \/ ReadAllowance
  \/ SimulateApprove
  \/ WriteApprove
  \/ SimulateSwap
  \/ WriteSwap

SpecAgent == AgentInit /\ [][AgentNext]_vars

(***************************************************************************)
(* supplyToMarket, step by step.  The chain here is the lending side: is    *)
(* the account in the market, what is the allowance of the account to the   *)
(* cToken (unlimited once an approval of the largest uint256 is included),  *)
(* and how many of the submitted transactions are included in a block.      *)
(* call holds the position of the one supplyToMarket call.                  *)
(***************************************************************************)
\* the markets of SYMBOL_TO_CTOKEN the model keeps, and a symbol without one
SupplySymbols == {"KAIA", "USDT", "FOO"}
hasMarket(tokenSymbol) == tokenSymbol \in {"KAIA", "USDT"}

\* the supplied amounts: '0.000000000000000008'
SupplyAmounts == {Dec(8, 18)}

\* the call goes on at stage
supplyAt(c, stage) == [c EXCEPT !.stage = stage]

\* the call throws err at its stage: handleContractError(error) is rethrown
supplyThrows(c, err) == [c EXCEPT !.status = "error", !.error = err, !.failedAt = c.stage,
                                  !.stage = "done"]

\* the stage after the market is entered or found entered
afterMembership(c) == supplyAt(c, IF c.tokenSymbol # "KAIA" THEN "allowance" ELSE "mint")

\* supplyToMarket(tokenSymbol, amount): requireTransactionMode, then the
\* lookup of the cToken
SupplyToMarket(tokenSymbol, amount) ==
  /\ call.op = "none"
  /\ call' = IF agent.isReadonly
               THEN [op |-> "supplyToMarket", status |-> "error",
                     error |-> TransactionModeError, n |-> 1, stage |-> "done",
                     failedAt |-> "requireTransactionMode",
                     tokenSymbol |-> tokenSymbol, amountWei |-> 0]
             ELSE IF ~hasMarket(tokenSymbol)
               THEN [op |-> "supplyToMarket", status |-> "error",
                     error |-> Error("ValidationError", <<"Market ", tokenSymbol, " not available">>),
                     n |-> 1, stage |-> "done", failedAt |-> "validation",
                     tokenSymbol |-> tokenSymbol, amountWei |-> 0]
             ELSE [op |-> "supplyToMarket", status |-> "none", error |-> NoError,
                   n |-> 1, stage |-> "membership", failedAt |-> "none",
                   tokenSymbol |-> tokenSymbol, amountWei |-> parseUnits(amount, Decimals18)]
  /\ UNCHANGED <<chain, pc, req, tiers, quotes, probes, result, calc,
                 agent, exec, reads, txs, clock, tool>>

\* checkMarketMembership: getAssetsIn is read, or the read throws
CheckMarketMembership ==
  /\ call.op = "supplyToMarket"
  /\ call.stage = "membership"
  /\ reads' = reads + 1
  /\ \E ok \in BOOLEAN :
        call' = IF ~ok
                  THEN supplyThrows(call, Error("Error", <<"Failed to check market membership: ">>))
                ELSE IF chain.member THEN afterMembership(call)
                ELSE supplyAt(call, "enter")
  /\ UNCHANGED <<chain, pc, req, tiers, quotes, probes, result, calc,
                 agent, exec, txs, clock, tool>>

\* enterMarkets([cTokenAddress]): the transaction is submitted and its hash
\* returned, or writeContract throws
EnterMarkets ==
  /\ call.op = "supplyToMarket"
  /\ call.stage = "enter"
  /\ \E ok \in BOOLEAN :
        IF ok
          THEN /\ txs' = Append(txs, Tx("enterMarkets", "0x0", "0x0", 0, 0, 0, 0, 0, clock))
               /\ call' = afterMembership(call)
          ELSE /\ txs' = txs
               /\ call' = supplyThrows(call, Error("ContractError", <<"enterMarkets">>))
  /\ UNCHANGED <<chain, pc, req, tiers, quotes, probes, result, calc,
                 agent, exec, reads, clock, tool>>

\* checkAllowance(tokenSymbol, cTokenAddress) and the comparison with
\* amountWei
CheckAllowance ==
  /\ call.op = "supplyToMarket"
  /\ call.stage = "allowance"
  /\ reads' = reads + 1
  /\ \E ok \in BOOLEAN :
        call' = IF ~ok
                  THEN supplyThrows(call, Error("Error", <<"Failed to check allowance: ">>))
                ELSE IF ~chain.unlimited /\ chain.allowance < call.amountWei
                  THEN supplyAt(call, "approve")
                ELSE supplyAt(call, "mint")
  /\ UNCHANGED <<chain, pc, req, tiers, quotes, probes, result, calc,
                 agent, exec, txs, clock, tool>>

\* approveToken(tokenSymbol, cTokenAddress): the approval of the largest
\* uint256 is submitted and its hash returned, or writeContract throws
ApproveToken ==
  /\ call.op = "supplyToMarket"
  /\ call.stage = "approve"
  /\ \E ok \in BOOLEAN :
        IF ok
          THEN /\ txs' = Append(txs, Tx("approve", call.tokenSymbol, "0x0", 0, 0, 0, 0, 0, clock))
               /\ call' = supplyAt(call, "mint")
          ELSE /\ txs' = txs
               /\ call' = supplyThrows(call, Error("ContractError", <<"approve">>))
  /\ UNCHANGED <<chain, pc, req, tiers, quotes, probes, result, calc,
                 agent, exec, reads, clock, tool>>

\* writeContract of mint(amountWei); its hash is returned
Mint ==
  /\ call.op = "supplyToMarket"
  /\ call.stage = "mint"
  /\ \E ok \in BOOLEAN :
        IF ok
          THEN /\ txs' = Append(txs, Tx("mint", call.tokenSymbol, "0x0", 0, call.amountWei,
                                        0, 0, 0, clock))
               /\ call' = [call EXCEPT !.status = "ok", !.stage = "done"]
          ELSE /\ txs' = txs
               /\ call' = supplyThrows(call, Error("ContractError", <<"mint">>))
  /\ UNCHANGED <<chain, pc, req, tiers, quotes, probes, result, calc,
                 agent, exec, reads, clock, tool>>

\* the chain once the transaction tx is included, with success or reverted
included(c, tx, success) ==
  [c EXCEPT !.included = c.included + 1,
            !.member = c.member \/ (success /\ tx.kind = "enterMarkets"),
            !.unlimited = c.unlimited \/ (success /\ tx.kind = "approve")]

\* a block includes the next submitted transaction of the account; no step
\* of the call waits for it
IncludeTx ==
  /\ call.op = "supplyToMarket"
  /\ chain.included < Len(txs)
  /\ \E success \in BOOLEAN : chain' = included(chain, txs[chain.included + 1], success)
  /\ UNCHANGED <<pc, req, tiers, quotes, probes, result, calc,
                 agent, exec, reads, txs, clock, tool, call>>

SupplyInit ==
  /\ chain \in [member : BOOLEAN, allowance : {0, 7, 8}, unlimited : BOOLEAN,
                 included : {0}]
  /\ agent \in SwapAgents
  /\ pc = "idle"
  /\ req = NoRequest
  /\ tiers = <<>>
  /\ quotes = <<>>
  /\ probes = <<>>
  /\ result = NoResult
  /\ calc = NoCalc
  /\ exec = NoExec
  /\ reads = 0
  /\ txs = <<>>
  /\ clock = 0
  /\ tool = [stage |-> "idle"]
  /\ call = NoCall

SupplyNext ==
  \/ \E t \in SupplySymbols : \E a \in SupplyAmounts : SupplyToMarket(t, a)
  \/ CheckMarketMembership
  \/ EnterMarkets
  \/ CheckAllowance
  \/ ApproveToken
  \/ Mint
  \/ IncludeTx

SpecSupply == SupplyInit /\ [][SupplyNext]_vars

(***************************************************************************)
(* The MCP server: the list-tools and call-tool request handlers over the   *)
(* tool sets KaiaWalletTools and KaiaReadOnlyTools.  A tool set is an       *)
(* object from registry keys to tools; a wallet tool has name, schema and   *)
(* handler, a DragonSwap tool has name and inputSchema only.  The source    *)
(* holds the tool sets with the DragonSwap tools spread into them and       *)
(* without; both are initial states.  tool holds the agent mode, the tool   *)
(* sets in use and the last response.                                       *)
(***************************************************************************)
McpTool(key, name, transaction) ==
  [key |-> key, name |-> name, schema |-> TRUE, handler |-> TRUE,
   transaction |-> transaction]
DragonSwapTool(key, name, transaction) ==
  [key |-> key, name |-> name, schema |-> FALSE, handler |-> FALSE,
   transaction |-> transaction]

\* the entries of KaiaWalletTools whose tools the source defines
WalletTools ==
  {McpTool("GetWalletInfoTool", "kaia_get_wallet_info", FALSE),
   McpTool("GetAccountLiquidityTool", "kaia_get_account_liquidity", FALSE),
   McpTool("GetMarketsTool", "kaia_get_lending_markets", FALSE),
   McpTool("GetProtocolStatsTool", "kaia_get_lending_stats", FALSE),
   McpTool("SupplyToMarketTool", "kaia_supply_to_lending", TRUE),
   McpTool("RepayBorrowTool", "kaia_repay_lending", TRUE)}

\* DragonSwapTools; DragonSwapReadOnlyTools are those that are no transaction
DragonSwapTools ==
  {DragonSwapTool("GetSwapQuoteTool", "get_dragonswap_quote", FALSE),
   DragonSwapTool("ExecuteSwapTool", "execute_dragonswap_swap", TRUE),
   DragonSwapTool("GetPoolInfoTool", "get_dragonswap_pool_info", FALSE)}

\* agentMode === 'transaction' ? KaiaWalletTools : KaiaReadOnlyTools
toolsOf(agentMode, withDragonSwap) ==
  {t \in WalletTools \cup (IF withDragonSwap THEN DragonSwapTools ELSE {}) :
     agentMode = "transaction" \/ ~t.transaction}

\* the list-tools handler: Object.keys(tool.schema) throws a TypeError for a
\* tool without schema, else every tool is listed under tool.name
listTools(tools) ==
  IF \E t \in tools : ~t.schema
    THEN [thrown |-> TRUE, names |-> {}]
    ELSE [thrown |-> FALSE, names |-> {t.name : t \in tools}]

\* tools[name]: the tool under the key name, a property every object
\* inherits ("inherited"), or undefined ("none")
lookupTool(tools, name) ==
  IF \E t \in tools : t.key = name THEN (CHOOSE t \in tools : t.key = name).key
  ELSE IF name = "toString" THEN "inherited"
  ELSE "none"

\* the content of the response of the call-tool handler for name, when the
\* handler it finds throws or returns
callTool(tools, name, handlerThrows) ==
  LET found == lookupTool(tools, name)
      tl == CHOOSE t \in tools : t.key = found
  IN  IF found = "none"
        THEN [name |-> name, ran |-> "none", isError |-> TRUE,
              message |-> <<"Unknown tool: ", name>>]
      ELSE IF found = "inherited" \/ ~tl.handler
        THEN [name |-> name, ran |-> "none", isError |-> TRUE,
              message |-> <<"tool.handler is not a function">>]
      ELSE IF handlerThrows
        THEN [name |-> name, ran |-> found, isError |-> TRUE, message |-> <<"handler">>]
      ELSE [name |-> name, ran |-> found, isError |-> FALSE, message |-> <<>>]

\* the names a client may send: the names and the keys of all tools, a
\* property of Object.prototype, and a name of no tool
RequestNames ==
  {t.name : t \in WalletTools \cup DragonSwapTools}
    \cup {t.key : t \in WalletTools \cup DragonSwapTools}
    \cup {"toString", "kaia_unknown"}

\* largest number of requests in a behaviour
MaxRequests == 2

\* a ListToolsRequest is answered
ListTools ==
  /\ tool.stage \in {"serving", "listed", "called"}
  /\ tool.n < MaxRequests
  /\ tool' = [tool EXCEPT !.stage = "listed", !.n = tool.n + 1,
                          !.list = listTools(toolsOf(tool.agentMode, tool.withDragonSwap))]
  /\ UNCHANGED <<chain, pc, req, tiers, quotes, probes, result, calc,
                 agent, exec, reads, txs, clock, call>>

\* a CallToolRequest for name is answered
CallTool(name, handlerThrows) ==
  /\ tool.stage \in {"serving", "listed", "called"}
  /\ tool.n < MaxRequests
  /\ tool' = [tool EXCEPT !.stage = "called", !.n = tool.n + 1,
                          !.response = callTool(toolsOf(tool.agentMode, tool.withDragonSwap),
                                                name, handlerThrows)]
  /\ UNCHANGED <<chain, pc, req, tiers, quotes, probes, result, calc,
                 agent, exec, reads, txs, clock, call>>

\* the server once started: const walletAgent = new WalletAgent()
ServerInit ==
  /\ tool \in {[stage |-> "serving", agentMode |-> m, withDragonSwap |-> d, n |-> 0,
                 list |-> [thrown |-> FALSE, names |-> {}],
                 response |-> [name |-> "", ran |-> "none", isError |-> FALSE,
                               message |-> <<>>]] :
                  m \in {"readonly", "transaction"}, d \in BOOLEAN}
  /\ agent = ReadonlyAgent
  /\ chain = [f \in FeeTiers |-> NoPool]
  /\ pc = "idle"
  /\ req = NoRequest
  /\ tiers = <<>>
  /\ quotes = <<>>
  /\ probes = <<>>
  /\ result = NoResult
  /\ calc = NoCalc
  /\ exec = NoExec
  /\ reads = 0
  /\ txs = <<>>
  /\ clock = 0
  /\ call = NoCall

ServerNext ==
  \/ ListTools
  \/ \E name \in RequestNames : \E handlerThrows \in BOOLEAN : CallTool(name, handlerThrows)

SpecServer == ServerInit /\ [][ServerNext]_vars

(***************************************************************************)
(* Concurrent requests.  Two requests, getSwapQuote or executeSwap, run     *)
(* interleaved at their awaits while the pool of the 0.05% tier changes on  *)
(* chain.  Each request has its own locals: pc, req, tiers, quotes, probes  *)
(* and result are here functions of the request; call tells its method.     *)
(* A probe keeps the pool it has read.                                       *)
(***************************************************************************)
Ids == {1, 2}

\* the states of the 0.05% pool: two prices, a lower liquidity, no pool
ConcPools ==
  {Pool("0xB", "WKAIA", "USDT", 64, 4, "none"),
   Pool("0xB", "WKAIA", "USDT", 64, 5, "none"),
   Pool("0xB", "WKAIA", "USDT", 16, 4, "none"),
   NoPool}

ConcRequests ==
  {SwapRequest("WKAIA", "USDT", DEFAULT_SLIPPAGE), SwapRequest("USDT", "WKAIA", DEFAULT_SLIPPAGE)}

\* getPoolInfo reusing the pool another request has read for the tier
poolStateReadCached(i, fee) ==
  IF \E j \in Ids \ {i} : \E k \in 1..Len(probes[j]) : probes[j][k].fee = fee
    THEN LET j == CHOOSE j \in Ids \ {i} : \E k \in 1..Len(probes[j]) : probes[j][k].fee = fee
             k == CHOOSE k \in 1..Len(probes[j]) : probes[j][k].fee = fee
         IN  probes[j][k].pool
    ELSE poolRead(req[i].tokenIn, req[i].tokenOut, fee)

\* the pool the reads of request i meet for the tier fee: the chain as it is
\* when the probe runs
poolStateRead(i, fee) == poolRead(req[i].tokenIn, req[i].tokenOut, fee)

\* the candidates of a request after a probe of tier fee that read pool
candidatesAfter(qs, r, fee, pool) ==
  IF calculateQuoteFromPool(pool, r.tokenIn, r.tokenOut, r.amountIn,
                            r.amountInDecimals, fee).outcome = "ok"
    THEN Append(qs, Candidate(calculateQuoteFromPool(pool, r.tokenIn, r.tokenOut, r.amountIn,
                                                     r.amountInDecimals, fee).quote,
                              fee, amountInWeiOf(r)))
    ELSE qs

\* request i starts: getSwapQuote(r), or executeSwap(r) on its way into
\* getSwapQuote(r)
ConcStart(i, r, method) ==
  /\ pc[i] = "idle"
  /\ call' = [call EXCEPT ![i] = method]
  /\ req' = [req EXCEPT ![i] = r]
  /\ tiers' = [tiers EXCEPT ![i] = getOptimalFeeTiers(amountInWeiOf(r), r.amountInDecimals)]
  /\ pc' = [pc EXCEPT ![i] = "probing"]
  /\ UNCHANGED <<chain, quotes, probes, result, calc, agent, exec, reads, txs, clock, tool>>

\* one iteration of the loop of request i
ConcProbe(i) ==
  /\ pc[i] = "probing"
  /\ tiers[i] # <<>>
  /\ quotes' = [quotes EXCEPT ![i] = candidatesAfter(@, req[i], Head(tiers[i]),
                                                     poolStateRead(i, Head(tiers[i])))]
  /\ probes' = [probes EXCEPT ![i] = Append(@, [fee |-> Head(tiers[i]),
                                                pool |-> poolStateRead(i, Head(tiers[i]))])]
  /\ tiers' = [tiers EXCEPT ![i] = Tail(@)]
  /\ reads' = reads + 1
  /\ UNCHANGED <<chain, pc, req, result, calc, agent, exec, txs, clock, tool, call>>

\* the loop of request i is over: getSwapQuote returns or throws; executeSwap
\* goes on with the quote it was returned
ConcFinish(i) ==
  /\ pc[i] = "probing"
  /\ tiers[i] = <<>>
  /\ result' = [result EXCEPT ![i] = quoteOutcome(quotes[i], req[i])]
  /\ pc' = [pc EXCEPT ![i] = IF call[i] = "executeSwap" /\ Len(quotes[i]) > 0
                                THEN "swap" ELSE "done"]
  /\ UNCHANGED <<chain, req, tiers, quotes, probes, calc, agent, exec, reads, txs,
                 clock, tool, call>>

\* executeSwap of request i submits its swap, or throws before
ConcSwap(i) ==
  /\ pc[i] = "swap"
  /\ pc' = [pc EXCEPT ![i] = "done"]
  /\ \E ok \in BOOLEAN :
        txs' = IF ok
                 THEN Append(txs, Tx("swap", req[i].tokenIn, req[i].tokenOut,
                                     feeOfQuote(result[i].quote.pool.fee),
                                     result[i].quote.amountIn, result[i].quote.amountOut,
                                     0, 0, i))
                 ELSE txs
  /\ UNCHANGED <<chain, req, tiers, quotes, probes, result, calc, agent, exec, reads,
                 clock, tool, call>>

\* the 0.05% pool changes on chain
ChangePool ==
  /\ \E i \in Ids : pc[i] = "probing"
  /\ \E p \in ConcPools \ {chain[FEE_LOW]} : chain' = [chain EXCEPT ![FEE_LOW] = p]
  /\ UNCHANGED <<pc, req, tiers, quotes, probes, result, calc, agent, exec, reads, txs,
                 clock, tool, call>>

ConcInit ==
  /\ chain = [f \in FeeTiers |->
                CASE f = FEE_LOWEST -> Pool("0xA", "WKAIA", "USDT", 64, 4, "none")
                  [] f = FEE_LOW -> Pool("0xB", "WKAIA", "USDT", 64, 4, "none")
                  [] OTHER -> NoPool]
  /\ agent = WalletAgent([form |-> "string", privateKey |-> "valid", mode |-> Undefined])
  /\ pc = [i \in Ids |-> "idle"]
  /\ req = [i \in Ids |-> NoRequest]
  /\ tiers = [i \in Ids |-> <<>>]
  /\ quotes = [i \in Ids |-> <<>>]
  /\ probes = [i \in Ids |-> <<>>]
  /\ result = [i \in Ids |-> NoResult]
  /\ call = [i \in Ids |-> "none"]
  /\ calc = NoCalc
  /\ exec = NoExec
  /\ reads = 0
  /\ txs = <<>>
  /\ clock = 0
  /\ tool = [stage |-> "idle"]

ConcNext ==
  \/ \E i \in Ids : \E r \in ConcRequests :
       \E method \in {"getSwapQuote", "executeSwap"} : ConcStart(i, r, method)
  \/ \E i \in Ids : ConcProbe(i)
  \/ \E i \in Ids : ConcFinish(i)
  \/ \E i \in Ids : ConcSwap(i)
  \/ ChangePool

SpecConc == ConcInit /\ [][ConcNext]_vars

(***************************************************************************)
(* The DragonSwap tool handlers: handleGetSwapQuote, handleExecuteSwap and  *)
(* handleGetPoolInfo.  Each is a try block with one catch around it.  The   *)
(* router's quote and swap are taken by their outcome (what they return or  *)
(* throw, and the transactions the swap submits); reads counts the awaited  *)
(* calls of the handler that reach the chain.                               *)
(***************************************************************************)
\* args of a tool call: the tokens, the recipient ('' when absent, "bad" for
\* a string that is no address), the fee of get-pool-info (0 when absent);
\* the slippage field is absent or holds basis points
ToolArgs ==
  {[tokenIn |-> p[1], tokenOut |-> p[2], recipient |-> rc, fee |-> f] :
     p \in {<<"WKAIA", "USDT">>, <<KAIA, "USDT">>, <<"FOO", "USDT">>,
            <<"0xZZ", "USDT">>, <<"WKAIA", "FOO">>},
     rc \in {"", "bad"},
     f \in {0, FEE_LOW}}
  \cup
  {[tokenIn |-> p[1], tokenOut |-> p[2], recipient |-> "", fee |-> 0, slippage |-> sl] :
     p \in {<<"WKAIA", "USDT">>, <<KAIA, "USDT">>},
     sl \in {0, 100}}

\* args.slippage || 50
toolSlippage(args) ==
  IF "slippage" \in DOMAIN args /\ args.slippage # 0 THEN args.slippage ELSE 50

\* the raw outputs the best pool's computation may yield
ToolAmountsOut == {1, 20000}

\* what the awaits of a handler meet: is there a router instance, do the
\* balance reads before and after return, do the pool lookups reach the
\* chain, is the swap simulated and written or does it throw, was an approval
\* written first, what does the receipt say, what raw output does the best
\* pool give
ToolOutcomes ==
  [router : BOOLEAN, balancesBefore : BOOLEAN, lookups : BOOLEAN,
   swap : {"throws", "hash"}, approved : BOOLEAN,
   receipt : {"success", "reverted", "throws"}, balancesAfter : BOOLEAN,
   amountOut : ToolAmountsOut]

\* getQuoteExactInput's amountOut: the minimum output for the slippage the
\* handler passes
toolQuoteAmountOut(args, o) ==
  minAmountOut(o.amountOut, slippageFactor(toolSlippage(args)))

\* the exactInputSingle transaction of executeExactInputSwap
toolSwapTx(args, o) ==
  Tx("swap", args.tokenIn, args.tokenOut, 0, 0, toolQuoteAmountOut(args, o), 0, 0, clock)

\* how the try block of a handler ends: by a throw of value or by a return
\* of value; failure is the message of the operation that threw on the way
\* (none: <<>>), hash and receipt are those of the swap that was submitted
Settled(thrown, value, failure, n, submitted, hash, receipt) ==
  [thrown |-> thrown, value |-> value, failure |-> failure, reads |-> n,
   txs |-> submitted, hash |-> hash, receipt |-> receipt]

\* the try block of handleExecuteSwap
executeSwapBody(args, o) ==
  IF parseTokenSymbolThrows(args.tokenIn) \/ parseTokenSymbolThrows(args.tokenOut)
    THEN Settled(TRUE, invalidTokenError(args).message, invalidTokenError(args).message,
                 0, <<>>, 0, "none")
  ELSE IF args.recipient = "bad"
    THEN Settled(TRUE, <<"Invalid recipient address format">>,
                 <<"Invalid recipient address format">>, 0, <<>>, 0, "none")
  ELSE IF ~o.router
    THEN Settled(TRUE, <<"TypeError">>, <<"TypeError">>, 0, <<>>, 0, "none")
  ELSE IF ~(Encodable(args.tokenIn) /\ Encodable(args.tokenOut))
    THEN Settled(TRUE, <<"InvalidAddressError">>, <<"InvalidAddressError">>,
                 0, <<>>, 0, "none")
  ELSE IF ~o.balancesBefore
    THEN Settled(TRUE, <<"balanceOf">>, <<"balanceOf">>, 1, <<>>, 0, "none")
  ELSE IF \/ ~o.lookups
          \/ \A f \in FeeTiers :
               ~getPoolInfo(poolRead(args.tokenIn, args.tokenOut, f)).found
    THEN Settled(TRUE, quoteOutcome(<<>>, args).error.message,
                 quoteOutcome(<<>>, args).error.message, 3, <<>>, 0, "none")
  ELSE IF o.swap = "throws"
    THEN Settled(TRUE, <<"exactInputSingle">>, <<"exactInputSingle">>, 3,
                 IF args.tokenIn # KAIA /\ o.approved
                   THEN <<Tx("approve", args.tokenIn, "0x0", 0, 0, 0, 0, 0, clock)>>
                   ELSE <<>>,
                 0, "none")
  ELSE IF o.receipt = "throws"
    THEN Settled(TRUE, <<"waitForTransactionReceipt">>, <<"waitForTransactionReceipt">>, 4,
                 (IF args.tokenIn # KAIA /\ o.approved
                    THEN <<Tx("approve", args.tokenIn, "0x0", 0, 0, 0, 0, 0, clock)>>
                    ELSE <<>>)
                   \o <<toolSwapTx(args, o)>>,
                 Len(txs) + (IF args.tokenIn # KAIA /\ o.approved THEN 2 ELSE 1),
                 "throws")
  ELSE IF ~o.balancesAfter
    THEN Settled(TRUE, <<"balanceOf">>, <<"balanceOf">>, 5,
                 (IF args.tokenIn # KAIA /\ o.approved
                    THEN <<Tx("approve", args.tokenIn, "0x0", 0, 0, 0, 0, 0, clock)>>
                    ELSE <<>>)
                   \o <<toolSwapTx(args, o)>>,
                 Len(txs) + (IF args.tokenIn # KAIA /\ o.approved THEN 2 ELSE 1),
                 o.receipt)
  ELSE Settled(FALSE,
               [success |-> TRUE,
                transaction |->
                  [hash |-> Len(txs) + (IF args.tokenIn # KAIA /\ o.approved THEN 2 ELSE 1),
                   status |-> IF o.receipt = "success" THEN "success" ELSE "failed"]],
               <<>>, 6,
               (IF args.tokenIn # KAIA /\ o.approved
                  THEN <<Tx("approve", args.tokenIn, "0x0", 0, 0, 0, 0, 0, clock)>>
                  ELSE <<>>)
                 \o <<toolSwapTx(args, o)>>,
               Len(txs) + (IF args.tokenIn # KAIA /\ o.approved THEN 2 ELSE 1),
               o.receipt)

\* the try block of handleGetSwapQuote: the quote throws when no tier yields
\* a pool
getSwapQuoteBody(args, o) ==
  IF parseTokenSymbolThrows(args.tokenIn) \/ parseTokenSymbolThrows(args.tokenOut)
    THEN Settled(TRUE, invalidTokenError(args).message, invalidTokenError(args).message,
                 0, <<>>, 0, "none")
  ELSE IF ~o.router
    THEN Settled(TRUE, <<"TypeError">>, <<"TypeError">>, 0, <<>>, 0, "none")
  ELSE IF \/ ~o.lookups
          \/ \A f \in FeeTiers :
               ~getPoolInfo(poolRead(args.tokenIn, args.tokenOut, f)).found
    THEN Settled(TRUE, quoteOutcome(<<>>, args).error.message,
                 quoteOutcome(<<>>, args).error.message, 1, <<>>, 0, "none")
  ELSE IF ~o.balancesBefore
    THEN Settled(TRUE, <<"balanceOf">>, <<"balanceOf">>, 2, <<>>, 0, "none")
  ELSE Settled(FALSE,
               [success |-> TRUE,
                quote |-> [tokenIn |-> args.tokenIn, tokenOut |-> args.tokenOut,
                           amountOut |-> toolQuoteAmountOut(args, o)]],
               <<>>, 3, <<>>, 0, "none")

\* the try block of handleGetPoolInfo: one pool when args.fee is given, else
\* the pools of all tiers; a lookup that fails yields no pool, a balance read
\* that fails is caught for the pool it belongs to
getPoolInfoBody(args, o) ==
  LET looked == IF args.fee # 0 THEN <<args.fee>>
                ELSE <<FEE_LOWEST, FEE_LOW, FEE_MEDIUM, FEE_HIGH, FEE_HIGHEST>>
      pools == SelectSeq(looked,
                         LAMBDA f : /\ o.lookups
                                    /\ getPoolInfo(poolRead(args.tokenIn, args.tokenOut, f)).found)
  IN  IF parseTokenSymbolThrows(args.tokenIn) \/ parseTokenSymbolThrows(args.tokenOut)
        THEN Settled(TRUE, invalidTokenError(args).message, invalidTokenError(args).message,
                     0, <<>>, 0, "none")
      ELSE IF ~o.router
        THEN Settled(TRUE, <<"TypeError">>, <<"TypeError">>, 0, <<>>, 0, "none")
      ELSE IF Len(pools) = 0
        THEN Settled(FALSE,
                     [success |-> TRUE, pools |-> <<>>,
                      message |-> <<"No pools found for this token pair">>],
                     IF ~(Encodable(args.tokenIn) /\ Encodable(args.tokenOut))
                       THEN <<"InvalidAddressError">>
                     ELSE IF ~o.lookups THEN <<"getPool">> ELSE <<>>,
                     IF o.lookups /\ Encodable(args.tokenIn) /\ Encodable(args.tokenOut)
                       THEN Len(looked) ELSE 0,
                     <<>>, 0, "none")
      ELSE Settled(FALSE,
                   [success |-> TRUE,
                    pools |-> [i \in 1..Len(pools) |->
                                 [fee |-> pools[i],
                                  address |-> chain[pools[i]].address,
                                  balance0 |-> IF o.balancesAfter THEN "balance" ELSE "0",
                                  error |-> IF o.balancesAfter THEN <<>> ELSE <<"balanceOf">>]]],
                   IF o.balancesAfter THEN <<>> ELSE <<"balanceOf">>,
                   Len(looked) + Len(pools), <<>>, 0, "none")

\* try { ... } catch (error) { return {success: false, error: error.message} }
toolCatch(name, args, r) ==
  [stage |-> "returned", name |-> name, args |-> args,
   payload |-> IF r.thrown THEN [success |-> FALSE, error |-> r.value] ELSE r.value,
   failure |-> r.failure, hash |-> r.hash, receipt |-> r.receipt]

HandleExecuteSwap(args, o) ==
  /\ tool.stage = "idle"
  /\ exec.stage = "idle"
  /\ pc = "idle"
  /\ tool' = toolCatch("execute_dragonswap_swap", args, executeSwapBody(args, o))
               @@ [amountOutWei |-> IF executeSwapBody(args, o).txs = <<>>
                                      THEN 0 ELSE o.amountOut]
  /\ reads' = reads + executeSwapBody(args, o).reads
  /\ txs' = txs \o executeSwapBody(args, o).txs
  /\ UNCHANGED <<chain, pc, req, tiers, quotes, probes, result, calc,
                 agent, exec, clock, call>>

HandleGetSwapQuote(args, o) ==
  /\ tool.stage = "idle"
  /\ exec.stage = "idle"
  /\ pc = "idle"
  /\ tool' = toolCatch("get_dragonswap_quote", args, getSwapQuoteBody(args, o))
               @@ [amountOutWei |-> IF getSwapQuoteBody(args, o).thrown
                                      THEN 0 ELSE o.amountOut]
  /\ reads' = reads + getSwapQuoteBody(args, o).reads
  /\ UNCHANGED <<chain, pc, req, tiers, quotes, probes, result, calc,
                 agent, exec, txs, clock, call>>

HandleGetPoolInfo(args, o) ==
  /\ tool.stage = "idle"
  /\ exec.stage = "idle"
  /\ pc = "idle"
  /\ tool' = toolCatch("get_dragonswap_pool_info", args, getPoolInfoBody(args, o))
  /\ reads' = reads + getPoolInfoBody(args, o).reads
  /\ UNCHANGED <<chain, pc, req, tiers, quotes, probes, result, calc,
                 agent, exec, txs, clock, call>>

\* each handler is called with the arguments of its input schema
ToolNext ==
  \/ \E args \in {a \in ToolArgs : a.fee = 0} :
       \E o \in ToolOutcomes : HandleExecuteSwap(args, o)
  \/ \E args \in {a \in ToolArgs : a.fee = 0 /\ a.recipient = ""} :
       \E o \in ToolOutcomes : HandleGetSwapQuote(args, o)
  \/ \E args \in {a \in ToolArgs : a.recipient = "" /\ "slippage" \notin DOMAIN a} :
       \E o \in ToolOutcomes : HandleGetPoolInfo(args, o)

SpecTool == SwapInit /\ [][ToolNext]_vars

(***************************************************************************)
(* The pure price functions on their own: the inputs are drawn by the       *)
(* initial state and one action applies each function to two input amounts  *)
(* amountA <= amountB.                                                      *)
(***************************************************************************)
NoChain == [f \in FeeTiers |-> NoPool]

\* price sources: a sqrtPriceX96 (in units of 2^(QBits - SqrtFracBits)) or a tick
PriceSources ==
  {[kind |-> "sqrt", v |-> v] : v \in 0..MaxSqrt} \cup {[kind |-> "tick", v |-> v] : v \in Ticks}

CalcArgs ==
  {[fn |-> "args", price |-> p, amountA |-> a, amountB |-> b,
    tokenInDecimals |-> di, tokenOutDecimals |-> do, isToken0Input |-> z,
    outA |-> Thrown, outB |-> Thrown] :
     p \in PriceSources, a \in 0..MaxAmountIn, b \in 0..MaxAmountIn,
     di \in {Decimals6, Decimals18}, do \in {Decimals6, Decimals18}, z \in BOOLEAN}

\* raw amounts at, just below and just above each threshold of
\* categorizeTradeSize, for a token of 0, 1 or 2 decimals
CategoryArgs ==
  {[fn |-> "amount", amountInWei |-> b * Pow10(d) + k, amountInDecimals |-> d,
    category |-> "none"] :
     b \in {10, 100, 1000, 10000}, k \in {-1, 0, 1}, d \in 0..2}

CalcInit ==
  /\ calc \in {c \in CalcArgs : c.amountA <= c.amountB} \cup CategoryArgs
  /\ chain = NoChain
  /\ pc = "idle"
  /\ req = NoRequest
  /\ tiers = <<>>
  /\ quotes = <<>>
  /\ probes = <<>>
  /\ result = NoResult
  /\ NoSwap

\* calculateAmountOutFromSqrtPrice applied to both amounts
CalcFromSqrtPrice ==
  /\ calc.fn = "args"
  /\ calc.price.kind = "sqrt"
  /\ calc' = [calc EXCEPT
       !.fn = "sqrt",
       !.outA = calculateAmountOutFromSqrtPrice(calc.price.v, calc.amountA,
                  calc.tokenInDecimals, calc.tokenOutDecimals, calc.isToken0Input),
       !.outB = calculateAmountOutFromSqrtPrice(calc.price.v, calc.amountB,
                  calc.tokenInDecimals, calc.tokenOutDecimals, calc.isToken0Input)]
  /\ UNCHANGED <<chain, pc, req, tiers, quotes, probes, result, reads, swapVars>>

\* the tick function scales the amount by 10^(tokenInDecimals -
\* tokenOutDecimals): the inputs whose result leaves TLC's integers are left out
TickResultFits(c) ==
  IF c.isToken0Input THEN c.tokenInDecimals <= c.tokenOutDecimals
  ELSE c.tokenInDecimals >= c.tokenOutDecimals

\* calculateAmountOutFromTick applied to both amounts
CalcFromTick ==
  /\ calc.fn = "args"
  /\ calc.price.kind = "tick"
  /\ TickResultFits(calc)
  /\ calc' = [calc EXCEPT
       !.fn = "tick",
       !.outA = calculateAmountOutFromTick(calc.price.v, calc.amountA,
                  calc.tokenInDecimals, calc.tokenOutDecimals, calc.isToken0Input),
       !.outB = calculateAmountOutFromTick(calc.price.v, calc.amountB,
                  calc.tokenInDecimals, calc.tokenOutDecimals, calc.isToken0Input)]
  /\ UNCHANGED <<chain, pc, req, tiers, quotes, probes, result, reads, swapVars>>

\* categorizeTradeSize applied to the amount
Categorize ==
  /\ calc.fn = "amount"
  /\ calc' = [calc EXCEPT
       !.fn = "category",
       !.category = categorizeTradeSize(calc.amountInWei, calc.amountInDecimals)]
  /\ UNCHANGED <<chain, pc, req, tiers, quotes, probes, result, reads, swapVars>>

CalcNext == CalcFromSqrtPrice \/ CalcFromTick \/ Categorize

SpecCalc == CalcInit /\ [][CalcNext]_vars

(***************************************************************************)
(* selectBestQuote on its own: the initial state draws a list of candidates *)
(* of distinct fee tiers and one action applies the function.               *)
(***************************************************************************)
\* longest candidate list drawn
MaxCandidates == 3

\* a candidate as getSwapQuote builds it, for a WKAIA -> USDT quote
SampleCandidate(amountOut, liquidityScore, priceImpact, fee) ==
  [tokenIn |-> "WKAIA", tokenOut |-> "USDT", amountIn |-> 8, amountOut |-> amountOut,
   amountInFormatted |-> Dec(8, Decimals18),
   amountOutFormatted |-> formatUnits(amountOut, Decimals6),
   pool |-> [address |-> "0xA", fee |-> fee, liquidity |-> 64],
   liquidityScore |-> liquidityScore, feeTier |-> fee, priceImpact |-> priceImpact,
   scored |-> FALSE, combinedScore |-> FZero]

\* the outputs, liquidity scores (in 64ths) and price impacts drawn
SampleScores ==
  {[amountOut |-> o, liquidityScore |-> RoundRat(lp[1], 64), priceImpact |-> lp[2]] :
     o \in {8, 12}, lp \in {<<32, FZero>>, <<32, FTen>>, <<33, FZero>>}}

\* the fee tiers drawn
SampleFees == {FEE_LOWEST, FEE_LOW, FEE_MEDIUM, FEE_HIGH}

\* the orders of n distinct fee tiers
FeeOrders(n) ==
  {fs \in [1..n -> SampleFees] : \A i, j \in 1..n : i # j => fs[i] # fs[j]}

\* the list of the candidates of fee tiers fs with the scores sc
CandidateList(fs, sc) ==
  [i \in 1..Len(fs) |->
     SampleCandidate(sc[i].amountOut, sc[i].liquidityScore, sc[i].priceImpact, fs[i])]

\* a list of one to MaxCandidates candidates, one per fee tier at most
SelectInit ==
  /\ \E n \in 1..MaxCandidates : \E fs \in FeeOrders(n) : \E sc \in [1..n -> SampleScores] :
       calc = [fn |-> "candidates", qs |-> CandidateList(fs, sc), best |-> NoReturn]
  /\ chain = NoChain
  /\ pc = "idle"
  /\ req = NoRequest
  /\ tiers = <<>>
  /\ quotes = <<>>
  /\ probes = <<>>
  /\ result = NoResult
  /\ NoSwap

\* selectBestQuote applied to the list
Select ==
  /\ calc.fn = "candidates"
  /\ calc' = [calc EXCEPT !.fn = "select", !.best = selectBestQuote(calc.qs)]
  /\ UNCHANGED <<chain, pc, req, tiers, quotes, probes, result, reads, swapVars>>

SelectNext == Select

SpecSelect == SelectInit /\ [][SelectNext]_vars

(***************************************************************************)
(* The slippage bound on its own: the initial state draws a raw output and  *)
(* two slippages bpsA < bpsB, one action applies the bound to both.          *)
(***************************************************************************)
\* raw outputs of the selected candidate
SlipOutputs == {1, 9999, 10000, MaxRaw}

\* the distances bpsB - bpsA of the pairs drawn
SlipGaps == {1, 2, 5000}

SlipInit ==
  /\ \E out \in SlipOutputs : \E a \in 0..(BpsBase - 1) : \E g \in SlipGaps :
        /\ a + g < BpsBase
        /\ calc = [fn |-> "bps", out |-> out, bpsA |-> a, bpsB |-> a + g,
                   minA |-> 0, minB |-> 0]
  /\ chain = NoChain
  /\ pc = "idle"
  /\ req = NoRequest
  /\ tiers = <<>>
  /\ quotes = <<>>
  /\ probes = <<>>
  /\ result = NoResult
  /\ NoSwap

\* minAmountOutWei of getSwapQuote for both slippages
ApplySlippage ==
  /\ calc.fn = "bps"
  /\ calc' = [calc EXCEPT
       !.fn = "minOut",
       !.minA = minAmountOut(calc.out, slippageFactor(calc.bpsA)),
       !.minB = minAmountOut(calc.out, slippageFactor(calc.bpsB))]
  /\ UNCHANGED <<chain, pc, req, tiers, quotes, probes, result, reads, swapVars>>

SlipNext == ApplySlippage

SpecSlip == SlipInit /\ [][SlipNext]_vars

(***************************************************************************)
(* The claims.                                                              *)
(***************************************************************************)
\* getSwapQuote has returned a quote
QuoteReturned == pc = "done" /\ result.status = "ok"

\* getSwapQuote has thrown
QuoteFailed == pc = "done" /\ result.status = "error"

\* the candidate the returned quote was made from
SelectedCandidate ==
  quotes[CHOOSE i \in 1..Len(quotes) : quotes[i].feeTier = result.quote.selectedFeeTier]

\* floor(rawOut * (10000 - bps) / 10000) in exact integer arithmetic
FloorShare(rawOut, bps) ==
  (rawOut \div 10000) * (10000 - bps) + ((rawOut % 10000) * (10000 - bps)) \div 10000

\* the elements of a sequence
Range(seq) == {seq[i] : i \in 1..Len(seq)}

\* C1: every quote returned for an integer slippage bps in [0, 10000) has
\* amountOut = floor(rawOut * (10000 - bps) / 10000), rawOut being the raw
\* output of the selected candidate, and amountOut <= rawOut.
C1_MinOutIsFloor ==
  (QuoteReturned /\ req.slippage \in 0..9999) =>
     /\ result.quote.amountOut = FloorShare(SelectedCandidate.amountOut, req.slippage)
     /\ result.quote.amountOut <= SelectedCandidate.amountOut

\* a quote whose minimum is one raw unit per 10000 short of the floor
C1_ShortMinimum ==
  /\ QuoteReturned
  /\ req.slippage = 1810
  /\ SelectedCandidate.amountOut >= 10000
  /\ result.quote.amountOut < FloorShare(SelectedCandidate.amountOut, req.slippage)

\* C2: a request whose slippage is outside [0, 10000) fails with an
\* invalid-slippage error before any pool is read and any amount is computed:
\* no tier is probed for it, it returns no quote, and no minimum output that
\* is zero or negative.
C2_InvalidSlippageRejected ==
  (pc # "idle" /\ req.slippage \notin 0..9999) =>
     /\ probes = <<>>
     /\ pc = "done" => /\ result.status = "error"
                       /\ result.error.kind = "InvalidSlippage"

\* a quote returned for slippage 10000 or more, with a minimum output of zero
\* or less although the raw output is positive
C2_QuoteWithoutMinimum ==
  /\ QuoteReturned
  /\ req.slippage >= 10000
  /\ SelectedCandidate.amountOut > 0
  /\ result.quote.amountOut <= 0

\* C3: when no fee tier yields a candidate, getSwapQuote returns no quote and
\* fails with a no-pool error whose message names the token pair, that is,
\* contains tokenIn and tokenOut.
C3_NoPoolErrorNamesPair ==
  (pc = "done" /\ quotes = <<>>) =>
     /\ result.status = "error"
     /\ result.quote = NoReturn
     /\ result.error.kind = "NoPool"
     /\ req.tokenIn \in Range(result.error.message)
     /\ req.tokenOut \in Range(result.error.message)

\* every tier probed, no pool at any of them, and the request failed
C3_NoPoolAtAnyTier ==
  /\ QuoteFailed
  /\ quotes = <<>>
  /\ Len(probes) = Cardinality(FeeTiers)
  /\ \A f \in FeeTiers : ~chain[f].exists

\* the fee tiers of a list of candidates or probes, in order
FeesOf(seq) == [i \in 1..Len(seq) |-> seq[i].fee]
CandidateFees == [i \in 1..Len(quotes) |-> quotes[i].feeTier]

\* the probes that returned a quote
ProbeSucceeded(p) == p.outcome = "ok"
SucceededProbes == SelectSeq(probes, ProbeSucceeded)

\* the pool of tier f cannot be read: there is none, or the factory read or the
\* batched read as a whole fails
Unreadable(f) == ~chain[f].exists \/ chain[f].fault \in {"factory", "multicall"}

\* C4: a tier whose probe fails (no pool, zero liquidity, a failed read, a
\* failed calculation) is skipped and the loop goes on to the next tier: the
\* candidates are exactly the tiers whose probe succeeded, in probe order, and
\* the request returns a quote iff some probe succeeded.
C4_FailedTiersSkipped ==
  (pc \in {"probing", "done"}) =>
     /\ CandidateFees = FeesOf(SucceededProbes)
     /\ Len(probes) + Len(tiers) = Cardinality(FeeTiers)
     /\ \A i \in 1..Len(probes) :
          (\/ Unreadable(probes[i].fee)
           \/ chain[probes[i].fee].liquidity = 0
           \/ probes[i].outcome \in {"PoolNotFound", "NoLiquidity", "TypeError", "RangeError"})
             => probes[i].fee \notin Range(CandidateFees)
     /\ pc = "done" => /\ tiers = <<>>
                       /\ QuoteReturned <=> SucceededProbes # <<>>
                       /\ QuoteFailed <=> SucceededProbes = <<>>

\* a quote returned although the first tier had no pool and tiers failed on
\* zero liquidity and on a calculation error, before and after a tier that
\* succeeded
C4_QuoteDespiteFailures ==
  /\ QuoteReturned
  /\ probes[1].outcome = "PoolNotFound"
  /\ \E i, j, k \in 1..Len(probes) :
       /\ i < j /\ j < k
       /\ probes[i].outcome \in {"NoLiquidity", "RangeError"}
       /\ probes[j].outcome = "ok"
       /\ probes[k].outcome \in {"NoLiquidity", "RangeError", "TypeError"}

\* C5: a pool whose liquidity is 0 is never a candidate: its probe fails with
\* the no-liquidity error before any amount is computed, and no candidate and
\* no returned quote is backed by a pool of liquidity 0.
C5_ZeroLiquidityNeverCandidate ==
  /\ \A i \in 1..Len(probes) :
       (probes[i].poolInfo.found /\ probes[i].poolInfo.liquidity = 0) =>
          /\ probes[i].outcome = "NoLiquidity"
          /\ ~probes[i].computed
          /\ probes[i].fee \notin Range(CandidateFees)
  /\ \A i \in 1..Len(quotes) :
       /\ quotes[i].pool.liquidity > 0
       /\ chain[quotes[i].feeTier].liquidity > 0
  /\ QuoteReturned =>
       /\ result.quote.pool.liquidity > 0
       /\ chain[result.quote.selectedFeeTier].liquidity > 0

\* a quote returned after the probe of a pool with liquidity 0 on chain
C5_ZeroLiquidityProbed ==
  /\ QuoteReturned
  /\ \E i \in 1..Len(probes) :
       /\ chain[probes[i].fee].exists
       /\ chain[probes[i].fee].fault = "none"
       /\ chain[probes[i].fee].liquidity = 0
       /\ probes[i].outcome = "NoLiquidity"

\* floor(amountInRaw * priceRaw) for a token0 input, floor(amountInRaw /
\* priceRaw) for a token1 input, with priceRaw = (s / 2^SqrtFracBits)^2, in
\* exact integer arithmetic
ExactAmountOut(s, amountIn, isToken0Input) ==
  IF isToken0Input THEN (amountIn * s * s) \div (Pow2(SqrtFracBits) * Pow2(SqrtFracBits))
  ELSE (amountIn * Pow2(SqrtFracBits) * Pow2(SqrtFracBits)) \div (s * s)

\* C8: for tokens of 6 and 18 decimals, in either assignment to token0 and
\* token1 and in either direction, the raw output is floor(amountInRaw *
\* priceRaw) for a token0 input and floor(amountInRaw / priceRaw) for a token1
\* input.
C8_OutputIsExactFloor ==
  (calc.fn = "sqrt" /\ calc.price.v > 0
     /\ calc.tokenInDecimals # calc.tokenOutDecimals) =>
     /\ ~calc.outA.thrown
     /\ calc.outA.value = ExactAmountOut(calc.price.v, calc.amountA, calc.isToken0Input)
     /\ ~calc.outB.thrown
     /\ calc.outB.value = ExactAmountOut(calc.price.v, calc.amountB, calc.isToken0Input)

\* at price 1 a token0 input of 6 decimals yields less than the input
C8_OutputBelowFloor ==
  /\ calc.fn = "sqrt"
  /\ calc.price.v = Pow2(SqrtFracBits)
  /\ calc.tokenInDecimals = Decimals6
  /\ calc.tokenOutDecimals = Decimals18
  /\ calc.isToken0Input
  /\ ~calc.outA.thrown
  /\ calc.outA.value < calc.amountA

\* C9: for a fixed price with sqrtPriceX96 > 0, fixed decimals and either
\* direction, the computed output is non-decreasing in the raw input amount,
\* for the sqrt-price function and for the tick function.
C9_OutputMonotone ==
  (calc.fn \in {"sqrt", "tick"} /\ (calc.price.kind = "sqrt" => calc.price.v > 0)) =>
     /\ ~calc.outA.thrown
     /\ ~calc.outB.thrown
     /\ calc.outA.value <= calc.outB.value

\* a token1 input of 6 decimals at a price other than 1: the larger amount
\* yields strictly more
C9_LargerInLargerOut ==
  /\ calc.fn = "sqrt"
  /\ calc.price.v > Pow2(SqrtFracBits)
  /\ ~calc.isToken0Input
  /\ calc.tokenInDecimals = Decimals6
  /\ calc.tokenOutDecimals = Decimals18
  /\ calc.amountA < calc.amountB
  /\ calc.outA.value > 0
  /\ calc.outA.value < calc.outB.value

\* C10: when tokenIn is neither token0 nor token1 of the pool state read for
\* the tier, the calculation fails with an invalid-pair error and computes no
\* output amount.
C10_ForeignTokenInRejected ==
  \A i \in 1..Len(probes) :
    (/\ probes[i].poolInfo.found
     /\ probes[i].poolInfo.liquidity > 0
     /\ probes[i].poolInfo.token0 # Undefined
     /\ req.tokenIn \notin {probes[i].poolInfo.token0, probes[i].poolInfo.token1}) =>
       /\ probes[i].outcome = "InvalidPair"
       /\ ~probes[i].computed

\* a candidate computed with tokenIn taken for token1 of a pool that holds
\* other tokens
C10_TakenForToken1 ==
  \E i \in 1..Len(probes) :
    /\ probes[i].poolInfo.found
    /\ probes[i].poolInfo.token0 # Undefined
    /\ probes[i].poolInfo.token1 # Undefined
    /\ req.tokenIn \notin {probes[i].poolInfo.token0, probes[i].poolInfo.token1}
    /\ probes[i].outcome = "ok"
    /\ probes[i].computed
    /\ ~probes[i].isToken0Input
    /\ probes[i].fee \in Range(CandidateFees)

\* the largest parsed output among the candidates qs
LargestOutput(qs) ==
  CHOOSE x \in {parseFloat(qs[i].amountOutFormatted) : i \in 1..Len(qs)} :
    \A i \in 1..Len(qs) : ~FLess(x, parseFloat(qs[i].amountOutFormatted))

\* 0.4*outputScore + 0.3*liquidityScore + 0.2*(1 - priceImpact/100)
\*   + 0.1*(1 - feeTier/10000) of candidate q, in doubles, outputScore being
\* its parsed output divided by the largest one
WeightedScore(q, largest) ==
  FAdd(FAdd(FAdd(FMul(FDiv(parseFloat(q.amountOutFormatted), largest), RoundRat(4, 10)),
                 FMul(q.liquidityScore, RoundRat(3, 10))),
            FMul(FSub(FOne, FDiv(q.priceImpact, FHundred)), RoundRat(2, 10))),
       FMul(FSub(FOne, FDiv(FromInt(q.feeTier), FromInt(10000))), RoundRat(1, 10)))

\* the scores of the candidates qs, in the order of the list
ScoresAgainst(qs, largest) == [i \in 1..Len(qs) |-> WeightedScore(qs[i], largest)]
Scores(qs) == ScoresAgainst(qs, LargestOutput(qs))

\* in the scores sc the k-th is maximal and the first that is
FirstWithMaximalScore(sc, k) ==
  /\ \A j \in 1..Len(sc) : ~FLess(sc[k], sc[j])
  /\ \A j \in 1..(k - 1) : FLess(sc[j], sc[k])

\* the position in the drawn list of the candidate selectBestQuote returned
ReturnedIndex ==
  CHOOSE i \in 1..Len(calc.qs) : calc.qs[i].feeTier = calc.best.feeTier

\* C6: over two or more candidates selectBest returns a candidate whose
\* combinedScore, computed by the weighted formula, is maximal, and the first
\* in the list among those that share the maximal score.
C6_SelectsFirstMaximalScore ==
  (calc.fn = "select" /\ Len(calc.qs) >= 2) =>
     LET sc == Scores(calc.qs)
     IN /\ calc.best.scored
        /\ calc.best.combinedScore = sc[ReturnedIndex]
        /\ calc.best = [calc.qs[ReturnedIndex] EXCEPT
                          !.scored = TRUE, !.combinedScore = sc[ReturnedIndex]]
        /\ FirstWithMaximalScore(sc, ReturnedIndex)

\* three candidates: the second is returned, its score strictly above the
\* first's and shared with the third
C6_TieSelectsFirst ==
  /\ calc.fn = "select"
  /\ Len(calc.qs) = 3
  /\ ReturnedIndex = 2
  /\ LET sc == Scores(calc.qs)
     IN /\ FLess(sc[1], sc[2])
        /\ IsFinite(sc[3])
        /\ sc[3] = sc[2]

\* the candidate selectBest chooses: the first with the maximal score, the
\* only one when there is one
BestIndex ==
  IF Len(quotes) = 1 THEN 1
  ELSE LET sc == Scores(quotes)
       IN CHOOSE k \in 1..Len(quotes) : FirstWithMaximalScore(sc, k)

\* the position of the candidate of tier fee
IndexOfFee(fee) == CHOOSE i \in 1..Len(quotes) : quotes[i].feeTier = fee

\* the candidate of tier low has a strictly better score than that of tier high
BetterScore(low, high) ==
  LET sc == Scores(quotes) IN FLess(sc[IndexOfFee(high)], sc[IndexOfFee(low)])

\* C7: the returned quote reports the fee tier and the pool address of the
\* candidate chosen by selectBest, also when another candidate has the larger
\* raw output: a fee-500 pool with the higher liquidity and the better score
\* is reported although the fee-3000 pool has the larger output.
C7_ReportsSelectedPool ==
  QuoteReturned =>
     LET best == quotes[BestIndex]
     IN /\ result.quote.selectedFeeTier = best.feeTier
        /\ result.quote.feeTier = best.feeTier
        /\ result.quote.pool.fee = best.feeTier
        /\ result.quote.pool.address = chain[best.feeTier].address
        /\ (Range(CandidateFees) = {FEE_LOW, FEE_HIGH} /\ BetterScore(FEE_LOW, FEE_HIGH))
              => result.quote.selectedFeeTier = FEE_LOW

\* candidates of fee 500 and fee 3000: the fee-500 pool has more liquidity and
\* the better score, the fee-3000 pool the larger raw output, and the quote
\* reports fee 500 and the address of that pool
C7_Fee500OverLargerOutput ==
  /\ QuoteReturned
  /\ Range(CandidateFees) = {FEE_LOW, FEE_HIGH}
  /\ quotes[IndexOfFee(FEE_HIGH)].amountOut > quotes[IndexOfFee(FEE_LOW)].amountOut
  /\ quotes[IndexOfFee(FEE_LOW)].pool.liquidity > quotes[IndexOfFee(FEE_HIGH)].pool.liquidity
  /\ BetterScore(FEE_LOW, FEE_HIGH)
  /\ result.quote.selectedFeeTier = FEE_LOW
  /\ result.quote.pool.address = chain[FEE_LOW].address

\* the reads of the batched pool read, one of which can fail on its own
BatchedReads == {"token0", "token1", "fee", "liquidity", "slot0"}

\* C11: getPoolInfo returns 'not found' when the factory knows no pool and
\* when any read of the tier fails, the failure of one read inside the batched
\* pool read included; a tier with a failed read yields no pool state and no
\* candidate.
C11_FailedReadIsNotFound ==
  \A i \in 1..Len(probes) :
     (~chain[probes[i].fee].exists \/ chain[probes[i].fee].fault # "none")
        => /\ probes[i].poolInfo = Null
           /\ probes[i].fee \notin Range(CandidateFees)

\* the slot0 read of a pool failed inside the batch: getPoolInfo returned a
\* pool state with sqrtPriceX96 0 and the tier became a candidate of output 0
C11_FailedSlot0IsCandidate ==
  \E i \in 1..Len(probes) :
     /\ chain[probes[i].fee].exists
     /\ chain[probes[i].fee].fault = "slot0"
     /\ chain[probes[i].fee].fault \in BatchedReads
     /\ probes[i].poolInfo.found
     /\ probes[i].poolInfo.sqrtPriceX96 = 0
     /\ probes[i].outcome = "ok"
     /\ \E k \in 1..Len(quotes) :
           quotes[k].feeTier = probes[i].fee /\ quotes[k].amountOut = 0

\* C20: for a raw output out > 0 the minimum output strictly decreases in
\* the slippage: bpsA < bpsB in [0, 10000) gives minOut(out, bpsA) >
\* minOut(out, bpsB).
C20_StrictlyDecreasing ==
  (calc.fn = "minOut" /\ calc.out > 0 /\ calc.bpsA < calc.bpsB)
     => calc.minA > calc.minB

\* C20 as amended: the minimum output never increases with the slippage, and
\* it strictly decreases when out >= 10000 and the slippages differ by two
\* basis points or more.
C20_NeverIncreasing ==
  (calc.fn = "minOut" /\ calc.out > 0 /\ calc.bpsA < calc.bpsB)
     => /\ calc.minA >= calc.minB
        /\ (calc.out >= BpsBase /\ calc.bpsB >= calc.bpsA + 2) => calc.minA > calc.minB

\* slippages 1810 and 1811 give the same minimum, 8189, for an output of 10000
C20_EqualMinimum ==
  /\ calc.fn = "minOut"
  /\ calc.out = BpsBase
  /\ calc.bpsA = 1810
  /\ calc.bpsB = 1811
  /\ calc.minA = calc.minB
  /\ calc.minA = 8189

\* the positions of the transactions of a kind among those submitted
TxsOfKind(kind) == {i \in 1..Len(txs) : txs[i].kind = kind}

\* executeSwap of the agent has thrown
SwapFailed == exec.via = "agent" /\ exec.stage = "done" /\ exec.outcome.status = "error"

\* executeSwap of the agent has returned the hash of its swap transaction
SwapReturned == exec.via = "agent" /\ exec.stage = "done" /\ exec.outcome.status = "ok"

\* C12: executeSwap first derives a quote, then for a non-native tokenIn
\* checks the allowance and requests an approval if it is insufficient, then
\* submits the swap; when the quote or the approval step fails no swap
\* transaction is submitted.
C12_QuoteThenApprovalThenSwap ==
  exec.via = "agent" =>
     /\ (exec.allowanceRead \/ exec.approvalRequested \/ txs # <<>>)
           => (pc = "done" /\ result.status = "ok" /\ probes # <<>>)
     /\ exec.approvalRequested => exec.allowanceRead
     /\ \A i \in TxsOfKind("approve") : i = 1 /\ exec.approvalRequested
     /\ \A i \in TxsOfKind("swap") :
           /\ i = Len(txs)
           /\ exec.tokenIn # KAIA =>
                 /\ exec.allowanceRead
                 /\ exec.allowance < exec.quote.amountIn
                       => (i = 2 /\ txs[1].kind = "approve")
     /\ SwapFailed => TxsOfKind("swap") = {}

\* the allowance was one unit short: the approval was submitted first, the
\* swap second, and executeSwap returned the hash of the swap
C12_ApprovedThenSwapped ==
  /\ SwapReturned
  /\ exec.allowance = exec.quote.amountIn - 1
  /\ Len(txs) = 2
  /\ txs[1].kind = "approve"
  /\ txs[2].kind = "swap"
  /\ exec.outcome.hash = 2

\* C13: an approval is requested if and only if tokenIn is not the native
\* token and the allowance read is less than the quote's raw amountIn; a native
\* tokenIn triggers neither an allowance read nor an approval, a sufficient
\* allowance no approval.
C13_ApprovalIffInsufficient ==
  exec.via = "agent" =>
     /\ exec.tokenIn = KAIA =>
           (~exec.allowanceRead /\ ~exec.approvalRequested /\ TxsOfKind("approve") = {})
     /\ (exec.approvalRequested \/ TxsOfKind("approve") # {}) =>
           /\ exec.tokenIn # KAIA
           /\ exec.allowanceRead
           /\ exec.allowance < exec.quote.amountIn
     /\ (exec.allowanceRead /\ exec.allowance >= exec.quote.amountIn) =>
           (~exec.approvalRequested /\ TxsOfKind("approve") = {})
     /\ (exec.allowanceRead /\ exec.allowance < exec.quote.amountIn
           /\ exec.stage # "approveSim") => exec.approvalRequested

\* the allowance equals the amount: the swap was submitted without an approval
C13_ExactAllowanceNoApproval ==
  /\ SwapReturned
  /\ exec.tokenIn # KAIA
  /\ exec.quote.amountIn > 0
  /\ exec.allowanceRead
  /\ exec.allowance = exec.quote.amountIn
  /\ ~exec.approvalRequested
  /\ Len(txs) = 1
  /\ txs[1].kind = "swap"

\* the swap transaction carries the fee tier of the selected pool, the raw
\* input of the quote and the quote's minimum, the slippage applied once
SwapCarriesQuote(t) ==
  /\ t.fee = result.quote.selectedFeeTier
  /\ t.fee = result.quote.pool.fee
  /\ t.amountIn = result.quote.amountIn
  /\ t.amountOutMinimum = result.quote.amountOut
  /\ t.amountOutMinimum = minAmountOut(SelectedCandidate.amountOut, slippageFactor(req.slippage))

\* C14: the swap transaction carries the fee tier of the pool the quote
\* selected, the quote's raw input amount, the quote's slippage-adjusted
\* minimum (slippage applied once) and a deadline equal to the submission time
\* in seconds plus deadlineMinutes * 60.
C14_SwapCarriesQuoteAndDeadline ==
  exec.via = "agent" =>
     \A i \in TxsOfKind("swap") :
        /\ SwapCarriesQuote(txs[i])
        /\ txs[i].deadline = txs[i].at + exec.deadline * 60

\* C14 as amended: the deadline is the time at which the quote returned,
\* before the allowance check and the simulation, plus deadlineMinutes * 60;
\* it is at most the submission time plus deadlineMinutes * 60.
C14_SwapCarriesQuoteAndEarlyDeadline ==
  exec.via = "agent" =>
     \A i \in TxsOfKind("swap") :
        /\ SwapCarriesQuote(txs[i])
        /\ txs[i].deadline = exec.quotedAt + exec.deadline * 60
        /\ txs[i].deadline <= txs[i].at + exec.deadline * 60

\* a swap of fee 500 submitted two seconds after its quote returned, with a
\* minimum of 7 for a raw output of 8 and the deadline counted from the quote
C14_SwapSubmittedLater ==
  /\ SwapReturned
  /\ exec.deadline = 1
  /\ \E i \in TxsOfKind("swap") :
        /\ txs[i].at = exec.quotedAt + 2
        /\ txs[i].deadline = exec.quotedAt + 60
        /\ txs[i].fee = FEE_LOW
        /\ SelectedCandidate.amountOut = 8
        /\ txs[i].amountOutMinimum = 7


\* C15: a call of executeSwap submits at most one swap transaction; a call
\* that ends with an error of the swap's simulation or submission has thrown
\* that error to its caller and has submitted no swap, and a call that is
\* over never submits anything afterwards.
C15_AtMostOneSwap ==
  /\ Cardinality(TxsOfKind("swap")) <= 1
  /\ (exec.stage = "done" /\ exec.outcome.status = "error") => TxsOfKind("swap") = {}
  /\ (exec.stage = "done" /\ exec.outcome.status = "ok")
       => /\ TxsOfKind("swap") = {exec.outcome.hash}
          /\ exec.outcome.hash = Len(txs)
  /\ TxsOfKind("swap") # {} => exec.stage = "done"

\* the swap was simulated (after an approval was written) and then failed:
\* the error is the caller's outcome, only the approval was submitted
C15_SwapFailureSurfaced ==
  /\ SwapFailed
  /\ exec.outcome.error = Error("ContractError", <<"exactInputSingle">>)
  /\ Len(txs) = 1
  /\ txs[1].kind = "approve"


\* a token string that is neither a symbol of SWAP_TOKENS nor 0x followed by
\* 40 hexadecimal digits
IllFormedToken(token) == token \notin KnownSymbols /\ ~Encodable(token)

\* C17: a quote (asked for directly or by executeSwap) whose tokenIn or
\* tokenOut is neither a known symbol nor a well-formed address has ended
\* with the invalid-token error, with no chain read issued and no transaction
\* requested.
C17_IllFormedTokenRejected ==
  (pc = "done" /\ (IllFormedToken(req.tokenIn) \/ IllFormedToken(req.tokenOut)))
    => /\ result.status = "error"
       /\ result.error.kind = "InvalidToken"
       /\ reads = 0
       /\ txs = <<>>
       /\ ~exec.approvalRequested

\* a tokenIn of 42 characters that starts with 0x and is not hexadecimal went
\* through parseTokenSymbol: every tier was probed, no read left the client,
\* and the quote failed for want of pools
C17_MalformedAddressProbed ==
  /\ pc = "done"
  /\ req.tokenIn = "0xZZ"
  /\ Len(probes) = Cardinality(DOMAIN chain)
  /\ \A i \in 1..Len(probes) : probes[i].poolInfo = Null
  /\ reads = 0
  /\ result.status = "error"
  /\ result.error = Error("NoPool",
                          <<"Failed to get quote: ",
                            "No available pools found for this token pair">>)


\* a constructor argument without a private key, or with mode 'readonly'
WithoutKey(config) ==
  \/ config.form = "none"
  \/ config.privateKey \in {Undefined, ""}
  \/ config.form = "object" /\ config.mode = "readonly"

\* C19: an agent constructed without a private key, or with mode 'readonly'
\* whatever key is given, is read-only and has no account; it never submits
\* a transaction nor requests an approval, and each call of a transaction
\* operation (executeSwap or one of the seven others) ends at once with the
\* transaction-mode error, with no chain read and no transaction issued.
C19_ReadonlyNeverTransacts ==
  /\ [](WithoutKey(agent.config)
          => /\ agent.isReadonly
             /\ ~agent.account
             /\ txs = <<>>
             /\ ~exec.approvalRequested)
  /\ [][(WithoutKey(agent.config) /\ call' # call)
          => /\ call'.op \in DOMAIN TransactionOps
             /\ call'.status = "error"
             /\ call'.error = TransactionModeError
             /\ reads' = reads
             /\ txs' = txs]_vars
  /\ [][(WithoutKey(agent.config) /\ exec.stage = "idle" /\ exec'.stage # "idle")
          => /\ exec'.stage = "done"
             /\ exec'.outcome.status = "error"
             /\ exec'.outcome.error = TransactionModeError
             /\ reads' = reads
             /\ txs' = txs
             /\ pc' = pc]_vars

\* an agent given a valid key and mode 'readonly' has refused executeSwap
\* and supplyToMarket
C19_ReadonlyWithKeyRefused ==
  /\ agent.config = [form |-> "object", privateKey |-> "valid", mode |-> "readonly"]
  /\ call.op = "supplyToMarket"
  /\ call.error = TransactionModeError
  /\ exec.stage = "done"
  /\ exec.outcome.error = TransactionModeError
  /\ reads = 0
  /\ txs = <<>>


\* C16: once the execute-swap tool has submitted a swap whose receipt says
\* reverted or could not be obtained, its caller has an error payload that
\* carries the hash of that transaction; success is never true for it.
C16_RevertedSwapIsErrorWithHash ==
  (/\ tool.stage # "idle"
   /\ tool.name = "execute_dragonswap_swap"
   /\ tool.hash # 0
   /\ tool.receipt \in {"reverted", "throws"})
    => /\ tool.payload.success = FALSE
       /\ "hash" \in DOMAIN tool.payload
       /\ tool.payload.hash = tool.hash

\* the swap was submitted and its receipt says reverted: the payload says
\* success, with the status "failed" inside the transaction
C16_RevertedReportedAsSuccess ==
  /\ tool.stage = "returned"
  /\ tool.name = "execute_dragonswap_swap"
  /\ tool.receipt = "reverted"
  /\ txs[tool.hash].kind = "swap"
  /\ tool.payload.success = TRUE
  /\ tool.payload.transaction = [hash |-> tool.hash, status |-> "failed"]

\* C18: a tool handler never throws, and whenever an operation it awaited
\* has failed, what it returns is {success: false, error: message} with the
\* message of that failure.
C18_FailuresReturnedAsErrorPayload ==
  tool.stage # "idle"
    => /\ tool.stage = "returned"
       /\ tool.failure # <<>> => tool.payload = [success |-> FALSE, error |-> tool.failure]

\* get-pool-info found a pool and could not read its balances: the payload
\* says success and carries the message inside the pool's entry
C18_PoolBalanceFailureIsSuccess ==
  /\ tool.stage = "returned"
  /\ tool.name = "get_dragonswap_pool_info"
  /\ tool.failure = <<"balanceOf">>
  /\ tool.payload.success = TRUE
  /\ Len(tool.payload.pools) = 1
  /\ tool.payload.pools[1].error = <<"balanceOf">>


\* C22: selectBestQuote applied to a list of exactly one candidate returns
\* that candidate as it is, every field unchanged and no score attached.
C22_SingleCandidateUnchanged ==
  (calc.fn = "select" /\ Len(calc.qs) = 1)
    => /\ calc.best = calc.qs[1]
       /\ ~calc.best.scored

\* the only candidate, of the 1% tier with a price impact of 10, was returned
C22_SingleCandidateReturned ==
  /\ calc.fn = "select"
  /\ Len(calc.qs) = 1
  /\ calc.qs[1].feeTier = FEE_HIGH
  /\ calc.qs[1].priceImpact = FTen
  /\ calc.best.feeTier = FEE_HIGH


\* the category of the thresholds for the amount amountInWei / 10^decimals
ExactCategory(amountInWei, decimals) ==
  IF amountInWei < 10 * Pow10(decimals) THEN "micro"
  ELSE IF amountInWei < 100 * Pow10(decimals) THEN "small"
  ELSE IF amountInWei < 1000 * Pow10(decimals) THEN "medium"
  ELSE IF amountInWei < 10000 * Pow10(decimals) THEN "large"
  ELSE "whale"

\* C24: categorizeTradeSize gives every raw amount the category of its amount
\* in human units: micro below 10, small below 100, medium below 1000, large
\* below 10000, whale from 10000 on; 10, 100, 1000 and 10000 themselves are
\* in the upper category.
C24_CategoryByThresholds ==
  calc.fn = "category"
    => calc.category = ExactCategory(calc.amountInWei, calc.amountInDecimals)

\* 9.99 tokens, a raw amount longer than the mantissa, categorised small
C24_BelowTenCategorisedSmall ==
  /\ calc.fn = "category"
  /\ calc.amountInWei = 999
  /\ calc.amountInDecimals = 2
  /\ calc.category = "small"


\* the fee tiers of the probes made so far, in their order
ProbedFees == [i \in 1..Len(probes) |-> probes[i].fee]

\* a sequence in which every configured fee tier occurs exactly once
EachTierOnce(fees) ==
  /\ Len(fees) = Cardinality(FeeTiers)
  /\ {fees[i] : i \in 1..Len(fees)} = FeeTiers

\* C23: the probe order of every trade-size category holds each configured
\* fee tier exactly once; during a quote the tiers probed so far followed by
\* the tiers still to probe are that order, so that no probe is repeated
\* whatever its outcome, and when the quote is over each tier was probed once.
C23_EachTierProbedOnce ==
  /\ \A c \in {"micro", "small", "medium", "large", "whale"} : EachTierOnce(tiersOf(c))
  /\ pc # "idle"
       => /\ ProbedFees \o tiers
               = getOptimalFeeTiers(amountInWeiOf(req), req.amountInDecimals)
          /\ EachTierOnce(ProbedFees \o tiers)
          /\ pc = "done" => (tiers = <<>> /\ EachTierOnce(ProbedFees))

\* a small trade was quoted: the 0.05% tier was probed first and failed, the
\* four others were probed after it, once each
C23_SmallTradeProbedAllTiers ==
  /\ pc = "done"
  /\ categorizeTradeSize(amountInWeiOf(req), req.amountInDecimals) = "small"
  /\ Len(probes) = 5
  /\ probes[1].fee = FEE_LOW
  /\ probes[1].outcome # "ok"
  /\ probes[3].fee = FEE_LOWEST
  /\ result.status = "ok"


\* a tool call that succeeded with the slippage argument given as 0
ZeroSlippageCall(name) ==
  /\ tool.stage = "returned"
  /\ tool.name = name
  /\ "slippage" \in DOMAIN tool.args
  /\ tool.args.slippage = 0
  /\ tool.payload.success

\* C21: a quote or a swap asked through the tool handlers with slippage 0
\* returns, and passes on as amountOutMinimum, the computed raw output itself.
C21_ZeroSlippageKeepsOutput ==
  /\ ZeroSlippageCall("get_dragonswap_quote")
       => tool.payload.quote.amountOut = tool.amountOutWei
  /\ ZeroSlippageCall("execute_dragonswap_swap")
       => txs[Len(txs)].amountOutMinimum = tool.amountOutWei

\* a quote asked with slippage 0 on a computed output of 20000 returned 19900,
\* the minimum for the default of 50 basis points
C21_ZeroSlippageQuotedWithDefault ==
  /\ ZeroSlippageCall("get_dragonswap_quote")
  /\ tool.amountOutWei = 20000
  /\ tool.payload.quote.amountOut = 19900


\* C26: in a returned quote the raw amount the liquidity score, the price
\* impact and the trade-size category were computed from (the amountIn parsed
\* with the caller's amountInDecimals) is the quote's raw amountIn (the
\* amountIn parsed with the decimals of tokenIn).
C26_ScoredAmountIsQuotedAmount ==
  QuoteReturned =>
    /\ amountInWeiOf(req) = result.quote.amountIn
    /\ result.quote.priceImpact
         = calculatePriceImpact(result.quote, result.quote.amountIn)
    /\ result.quote.liquidityScore
         = calculateLiquidityScore(result.quote, result.quote.amountIn)

\* 8 wei of WKAIA quoted with amountInDecimals 6: the output is computed
\* from 8 raw units, the scores and the category from 0
C26_ScoredZeroQuotedEight ==
  /\ QuoteReturned
  /\ req.tokenIn = "WKAIA"
  /\ req.amountInDecimals = Decimals6
  /\ result.quote.amountIn = 8
  /\ amountInWeiOf(req) = 0
  /\ result.quote.priceImpact = calculatePriceImpact(result.quote, 0)
  /\ result.quote.tradeSizeCategory = categorizeTradeSize(0, Decimals6)


\* the decimals of the output token of the request
TokenOutDecimals == getSwapTokenDecimals(req.tokenOut)

\* C27: in a returned quote amountOutFormatted is the raw amountOut written
\* with the decimals of the output token, and estimatedPrice is that amount
\* divided by amountInFormatted, whatever the slippage.
C27_FormattedDenotesRawOut ==
  QuoteReturned =>
    /\ result.quote.amountOutFormatted
         = formatUnits(result.quote.amountOut, TokenOutDecimals)
    /\ result.quote.estimatedPrice
         = FDiv(parseFloat(formatUnits(result.quote.amountOut, TokenOutDecimals)),
                parseFloat(result.quote.amountInFormatted))

\* a quote with the default slippage whose amountOut is below the amount its
\* amountOutFormatted denotes
C27_FormattedAboveRawOut ==
  /\ QuoteReturned
  /\ req.slippage = DEFAULT_SLIPPAGE
  /\ result.quote.amountOutFormatted.f = TokenOutDecimals
  /\ result.quote.amountOutFormatted.n = SelectedCandidate.amountOut
  /\ result.quote.amountOut < result.quote.amountOutFormatted.n


\* this call has submitted an approval
ApprovalSubmitted == \E i \in 1..Len(txs) : txs[i].kind = "approve"

\* C28: when executeSwap has submitted an approval, the simulation of the
\* swap ends only once the approval is in a block, and a swap is submitted
\* only then.
C28_SwapSimulatedAfterConfirmation ==
  /\ [][(exec.stage = "simulate" /\ exec'.stage # "simulate" /\ ApprovalSubmitted)
          => exec.approvalMined]_vars
  /\ []((ApprovalSubmitted /\ \E i \in 1..Len(txs) : txs[i].kind = "swap")
          => exec.approvalMined)

\* the approval was submitted and the swap was simulated before any block
\* held it: the call has thrown and left the approval without a swap
C28_SimulatedBeforeConfirmation ==
  /\ exec.stage = "done"
  /\ exec.outcome.status = "error"
  /\ exec.outcome.error = Error("ContractError", <<"exactInputSingle">>)
  /\ ApprovalSubmitted
  /\ ~exec.approvalMined
  /\ exec.allowance < exec.quote.amountIn
  /\ \A i \in 1..Len(txs) : txs[i].kind # "swap"


\* a mint transaction is among the submitted ones
MintSubmitted == \E i \in 1..Len(txs) : txs[i].kind = "mint"

\* C30: the mint transaction is submitted only when the account is in the
\* market and, for a token other than KAIA, the allowance to the cToken
\* covers the amount; a call that failed at the membership check, the market
\* entry, the allowance check or the approval has submitted no mint.
C30_MintAfterEntryAndAllowance ==
  /\ [][(MintSubmitted' /\ ~MintSubmitted)
          => /\ chain.member
             /\ call.tokenSymbol # "KAIA"
                  => (chain.unlimited \/ chain.allowance >= call.amountWei)]_vars
  /\ []((call.op = "supplyToMarket" /\ call.status = "error" /\ call.failedAt # "mint")
          => ~MintSubmitted)

\* the mint was submitted right after the market entry and the approval,
\* while no block held either: the account is not in the market and the
\* allowance is below the amount
C30_MintBeforeEntryIncluded ==
  /\ call.op = "supplyToMarket"
  /\ call.status = "ok"
  /\ Len(txs) = 3
  /\ txs[1].kind = "enterMarkets"
  /\ txs[2].kind = "approve"
  /\ txs[3].kind = "mint"
  /\ chain.included = 0
  /\ ~chain.member
  /\ ~chain.unlimited
  /\ chain.allowance < call.amountWei


\* the tool names the list-tools handler advertises in the mode of the server
Advertised == listTools(toolsOf(tool.agentMode, tool.withDragonSwap)).names

\* the registry key of the tool of a name
KeyOfName(name) ==
  (CHOOSE t \in WalletTools \cup DragonSwapTools : t.name = name).key

\* C29: a call of an advertised name runs the handler of the tool of that
\* name; a call of any other name is answered with the error 'Unknown tool'
\* and runs no handler.
C29_AdvertisedNamesDispatched ==
  tool.stage = "called" =>
    IF tool.response.name \in Advertised
      THEN tool.response.ran = KeyOfName(tool.response.name)
      ELSE /\ tool.response.ran = "none"
           /\ tool.response.isError
           /\ tool.response.message = <<"Unknown tool: ", tool.response.name>>

\* in read-only mode kaia_get_wallet_info is advertised, and the call of it
\* was answered 'Unknown tool: kaia_get_wallet_info' without running a handler
C29_AdvertisedNameRefused ==
  /\ tool.stage = "called"
  /\ tool.agentMode = "readonly"
  /\ ~tool.list.thrown
  /\ "kaia_get_wallet_info" \in tool.list.names
  /\ tool.response.name = "kaia_get_wallet_info"
  /\ tool.response.isError
  /\ tool.response.message = <<"Unknown tool: ", "kaia_get_wallet_info">>
  /\ tool.response.ran = "none"


\* the locals of request i
LocalsOf(i) == <<pc[i], req[i], tiers[i], quotes[i], probes[i], result[i], call[i]>>

\* the candidates computed from the pools the first n probes of request i read
RECURSIVE CandidatesFromReads(_, _)
CandidatesFromReads(i, n) ==
  IF n = 0 THEN <<>>
  ELSE candidatesAfter(CandidatesFromReads(i, n - 1), req[i],
                       probes[i][n].fee, probes[i][n].pool)

====
